---- MODULE Spec2Model ----
(***************************************************************************)
(* PathProof analysis engine (src/src/lib/graphAnalysis.ts).               *)
(*                                                                         *)
(* A batch of validated transactions is folded into a directed multigraph  *)
(* (buildGraph), four detectors mine it (detectCycles, detectSmurfing,     *)
(* detectShellChains, detectHighVelocity), and scoreAccounts,              *)
(* filterFalsePositives and assembleFraudRings mutate the node table in    *)
(* that order before the report is projected.  One action per call made by *)
(* analyzeTransactions; pc is the position inside analyzeTransactions.     *)
(*                                                                         *)
(* Around it the page (src/src/pages/Index.tsx) with its upload component  *)
(* (src/src/components/CSVUpload.tsx) and the CSV boundary                 *)
(* (src/src/lib/csvParser.ts): a dropped file is parsed and validated, and *)
(* handleParsed runs the analysis after two timers.  There pc is "idle"    *)
(* while no call of analyzeTransactions is on the stack.                   *)
(*                                                                         *)
(* Representation.                                                         *)
(*  - A JavaScript string is a sequence of one-character strings, so that  *)
(*    join, padStart, sort and startsWith are computed, not assumed.       *)
(*  - A JavaScript Map or Set is iterated in insertion order: a Set is a   *)
(*    duplicate-free sequence, a Map is a key sequence plus a function.    *)
(*  - Amounts and scores are integers; timestamps are milliseconds counted *)
(*    from the start of the batch's day; risk_score and suspicion_score    *)
(*    (one decimal in the code) are held in tenths.                        *)
(***************************************************************************)
EXTENDS Integers, Sequences, FiniteSets

VARIABLES
    transactions,     \* the batch handed to analyzeTransactions
    pc,               \* position inside analyzeTransactions ("input" before the call, "idle" without one)
    nodeIds,          \* nodes: Map keys in insertion order
    nodes,            \* nodes: id -> GraphNode
    edges,            \* edges: GraphEdge[]
    adjacency,        \* adjacency: id -> Set of ids (insertion ordered)
    reverseAdj,       \* reverseAdj: id -> Set of ids (insertion ordered)
    cycles,           \* detectCycles(...).cycles
    maxPath,          \* longest path the DFS of detectCycles ever held
    cycleNodes,       \* cycleNodes: id -> {length, ringId}
    fanInAccounts,    \* detectSmurfing(...).fanInAccounts
    fanOutAccounts,   \* detectSmurfing(...).fanOutAccounts
    shellAccounts,    \* detectShellChains(...).shellAccounts
    highVelocity,     \* detectHighVelocity(...)
    fraudRings,       \* assembleFraudRings(...)
    ringCounter,      \* module-level let ringCounter
    report,           \* the AnalysisResult returned (suspicious_accounts, summary)
    prev,             \* an earlier call's batch and result, kept for comparison
    shellTrace,       \* detectShellChains: what each seed's queue ever held
    ran,              \* the detectors that have returned
    appState,         \* Index: useState<AppState>('upload')
    result,           \* Index: useState<AnalysisResult | null>(null)
    fileName,         \* Index: useState('')
    processingError,  \* Index: useState('')
    progressMsg,      \* Index: useState('')
    upload,           \* the state of the mounted CSVUpload component
    tasks,            \* the runs of processFile and handleParsed, in the order of their start
    started           \* the number of files handed to processFile so far

\* the state of the page (Index and the CSVUpload it renders)
page == <<appState, result, fileName, processingError, progressMsg, upload, tasks, started>>

vars == <<transactions, pc, nodeIds, nodes, edges, adjacency, reverseAdj, cycles,
          maxPath, cycleNodes, fanInAccounts, fanOutAccounts, shellAccounts,
          highVelocity, fraudRings, ringCounter, report, prev, shellTrace, ran, page>>

-----------------------------------------------------------------------------
(* JavaScript strings, arrays, Sets and Maps *)

\* the characters used, in increasing UTF-16 code unit order
Alphabet == <<"0", "1", "2", "3", "4", "5", "6", "7", "8", "9",
              "A", "B", "C", "D", "E", "F", "G", "H", "I", "J", "K", "L", "M",
              "N", "O", "P", "Q", "R", "S", "T", "U", "V", "W", "X", "Y", "Z",
              "_",
              "a", "b", "c", "d", "e", "f", "g", "h", "i", "j", "k", "l", "m",
              "n", "o", "p", "q", "r", "s", "t", "u", "v", "w", "x", "y", "z",
              "|">>

CodeUnit(c) == CHOOSE i \in 1..Len(Alphabet) : Alphabet[i] = c

\* a < b for JavaScript strings: code units compared left to right, a proper
\* prefix sorting first (the default comparator of Array.prototype.sort)
RECURSIVE StrLess(_, _)
StrLess(a, b) ==
    IF b = << >> THEN FALSE
    ELSE IF a = << >> THEN TRUE
    ELSE IF Head(a) = Head(b) THEN StrLess(Tail(a), Tail(b))
    ELSE CodeUnit(Head(a)) < CodeUnit(Head(b))

Range(s) == {s[i] : i \in 1..Len(s)}

Includes(s, x) == \E i \in 1..Len(s) : s[i] = x

\* TLC evaluates operator arguments and LET definitions on first use; a loop
\* written as a recursion tests Forced(v) on its accumulator v before the next
\* iteration, so that v is evaluated there and not at the end of the loop
Forced(v) == v = v

\* the elements of the set of indices idx of s, in increasing index order
Pick(s, idx) ==
    [k \in 1..Cardinality(idx) |->
        s[CHOOSE i \in idx : Cardinality({j \in idx : j < i}) = k - 1]]

\* Set.prototype.add on an insertion-ordered Set
SetAdd(s, x) == IF Includes(s, x) THEN s ELSE Append(s, x)

\* for (const x of xs) s.add(x)
SetAddAll(s, xs) ==
    s \o Pick(xs, {i \in 1..Len(xs) :
                      /\ ~Includes(s, xs[i])
                      /\ \A j \in 1..(i - 1) : xs[j] # xs[i]})

\* Array.prototype.filter
Filter(s, Keep(_)) == SelectSeq(s, Keep)

\* Array.prototype.map
Map(s, Fn(_)) == [i \in 1..Len(s) |-> Fn(s[i])]

\* Array.prototype.sort(compare), compare(a, b) < 0 iff Less(a, b), Less a strict
\* weak order.  The sort is stable: s[i] lands behind every element that is
\* less, and behind every earlier element that is not greater.
SortBy(s, Less(_, _)) ==
    LET before(i) == {j \in 1..Len(s) : Less(s[j], s[i]) \/ (j < i /\ ~Less(s[i], s[j]))}
    IN  [k \in 1..Len(s) |-> s[CHOOSE i \in 1..Len(s) : Cardinality(before(i)) = k - 1]]

\* Array.prototype.join
RECURSIVE Join(_, _)
Join(strs, sep) ==
    IF strs = << >> THEN << >>
    ELSE IF Len(strs) = 1 THEN strs[1]
    ELSE strs[1] \o sep \o Join(Tail(strs), sep)

\* reduce((a, b) => a + b, 0)
RECURSIVE SumSeq(_)
SumSeq(s) == IF s = << >> THEN 0 ELSE SumSeq(SubSeq(s, 1, Len(s) - 1)) + s[Len(s)]

Min(a, b) == IF a < b THEN a ELSE b
Max(a, b) == IF a > b THEN a ELSE b

\* String(n) for n >= 0
Digit(d) == Alphabet[d + 1]
RECURSIVE NumToString(_)
NumToString(n) == IF n < 10 THEN <<Digit(n)>> ELSE NumToString(n \div 10) \o <<Digit(n % 10)>>

\* String.prototype.padStart(width, fill) with a one-character fill
RECURSIVE PadStart(_, _, _)
PadStart(s, width, fill) ==
    IF Len(s) >= width THEN s ELSE PadStart(<<fill>> \o s, width, fill)

\* String.prototype.startsWith
StartsWith(s, p) == Len(s) >= Len(p) /\ SubSeq(s, 1, Len(p)) = p

\* a variant that cuts the second decimal off
TruncTenths(num, den) == (10 * num) \div den

\* Math.round(x * 10) / 10 for x = num / den >= 0, in tenths (round half up).
\* For num a sum of scores, which are multiples of 5, and den up to 400 the
\* doubles num / den * 10 round to the same integer as the exact quotient.
RoundTenths(num, den) == (20 * num + den) \div (2 * den)

\* absent optional value (undefined); '' is the empty sequence
Undefined == <<"undefined">>
\* null; a value that may be null is held as a sequence of at most one element
Null == << >>
Falsy(s) == s = Undefined \/ s = << >>

-----------------------------------------------------------------------------
(* Graph building *)

NewNode(id) ==
    [id |-> id, totalTransactions |-> 0, totalSent |-> 0, totalReceived |-> 0,
     uniqueSenders |-> {}, uniqueReceivers |-> {},
     isSuspicious |-> FALSE, suspicionScore |-> 0, detectedPatterns |-> << >>,
     ringId |-> Undefined]

EmptyGraph ==
    [nodeIds |-> << >>, nodes |-> << >>, edges |-> << >>,
     adjacency |-> << >>, reverseAdj |-> << >>]

\* Map.get(k) ?? new Set()
GetOr(m, k) == IF k \in DOMAIN m THEN m[k] ELSE << >>

\* m.set(k, v) on a Map held as a function
MapSet(m, k, v) == [x \in (DOMAIN m) \cup {k} |-> IF x = k THEN v ELSE m[x]]

\* a variant without the has(id) test
ensureNodeAfresh(g, id) ==
    [g EXCEPT !.nodeIds = Append(@, id), !.nodes = MapSet(@, id, NewNode(id))]

ensureNode(g, id) ==
    IF id \in DOMAIN g.nodes THEN g
    ELSE [g EXCEPT !.nodeIds = Append(@, id), !.nodes = MapSet(@, id, NewNode(id))]

\* one iteration of the loop over transactions
AddTx(g0, tx) ==
    LET g1 == ensureNode(ensureNode(g0, tx.sender_id), tx.receiver_id)
        n1 == [g1.nodes EXCEPT
                 ![tx.sender_id].totalTransactions = @ + 1,
                 ![tx.sender_id].totalSent = @ + tx.amount,
                 ![tx.sender_id].uniqueReceivers = @ \cup {tx.receiver_id}]
        n2 == [n1 EXCEPT
                 ![tx.receiver_id].totalTransactions = @ + 1,
                 ![tx.receiver_id].totalReceived = @ + tx.amount,
                 ![tx.receiver_id].uniqueSenders = @ \cup {tx.sender_id}]
        e  == [source |-> tx.sender_id, target |-> tx.receiver_id,
               amount |-> tx.amount, timestamp |-> tx.timestampMs,
               transactionId |-> tx.transaction_id]
    IN  [g1 EXCEPT
           !.nodes = n2,
           !.edges = Append(@, e),
           !.adjacency = MapSet(@, tx.sender_id,
                                SetAdd(GetOr(@, tx.sender_id), tx.receiver_id)),
           !.reverseAdj = MapSet(@, tx.receiver_id,
                                 SetAdd(GetOr(@, tx.receiver_id), tx.sender_id))]

RECURSIVE FoldTx(_, _)
FoldTx(g, txs) ==
    IF txs = << >> \/ ~Forced(g) THEN g ELSE FoldTx(AddTx(g, Head(txs)), Tail(txs))

buildGraph(txs) == FoldTx(EmptyGraph, txs)

-----------------------------------------------------------------------------
(* Cycle detection (DFS, length 3 to 5) *)

\* const key = [...cycle].sort().join('|')
CycleKey(cycle) == Join(SortBy(cycle, StrLess), <<"|">>)

\* a variant that accepts a return to start one hop early
ClosesCycleAtTwo(neighbor, start, depth) == neighbor = start /\ depth >= 2

\* if (neighbor === start && depth >= 3)
ClosesCycle(neighbor, start, depth) == neighbor = start /\ depth >= 3

\* if (!visited.has(neighbor) && depth < 5)
MayDescend(neighbor, visited, depth) == neighbor \notin visited /\ depth < 5

\* if (!seenCycles.has(key)) { seenCycles.add(key); cycles.push(cycle); }
EmitCycle(acc, cycle) ==
    LET key == CycleKey(cycle)
    IN  IF key \in acc.seenCycles THEN acc
        ELSE [acc EXCEPT !.seenCycles = @ \cup {key}, !.cycles = Append(@, cycle)]

\* dfs(current, depth) with the closure's path and visited passed along; acc is
\* {cycles, seenCycles} plus maxPath, the longest path held so far.  dfsLoop is
\* the for loop over the neighbours of current, from the i-th on.
RECURSIVE dfs(_, _, _, _, _, _, _)
RECURSIVE dfsLoop(_, _, _, _, _, _, _, _)
dfsLoop(adj, start, current, depth, path, visited, i, acc) ==
    LET neighbors == GetOr(adj, current)
    IN  IF i > Len(neighbors) THEN acc
        ELSE LET neighbor == neighbors[i]
                 acc1 == IF ClosesCycle(neighbor, start, depth)
                            THEN EmitCycle(acc, path)
                         ELSE IF MayDescend(neighbor, visited, depth)
                            THEN dfs(adj, start, neighbor, depth + 1,
                                     Append(path, neighbor), visited \cup {neighbor}, acc)
                         ELSE acc
             IN  IF ~Forced(acc1) THEN acc1
                 ELSE dfsLoop(adj, start, current, depth, path, visited, i + 1, acc1)

dfs(adj, start, current, depth, path, visited, acc) ==
    IF depth > 5 THEN acc
    ELSE dfsLoop(adj, start, current, depth, path, visited, 1,
                 [acc EXCEPT !.maxPath = Max(@, Len(path))])

\* for (const start of nodeIds) { ...; dfs(start, 1); }
RECURSIVE detectCyclesFrom(_, _, _)
detectCyclesFrom(adj, ids, acc) ==
    IF ids = << >> \/ ~Forced(acc) THEN acc
    ELSE detectCyclesFrom(adj, Tail(ids),
                          dfs(adj, Head(ids), Head(ids), 1, <<Head(ids)>>, {Head(ids)}, acc))

detectCycles(adj, ids) ==
    detectCyclesFrom(adj, ids, [cycles |-> << >>, seenCycles |-> {}, maxPath |-> 0])

\* analyzeTransactions: the cycleNodes map, account -> {length, ringId: ''}
RECURSIVE CycleNodesAdd(_, _, _)
CycleNodesAdd(cn, accs, len) ==
    IF accs = << >> \/ ~Forced(cn) THEN cn
    ELSE LET acc == Head(accs)
             cn1 == IF acc \notin DOMAIN cn \/ cn[acc].length > len
                       THEN MapSet(cn, acc, [length |-> len, ringId |-> << >>])
                       ELSE cn
         IN  CycleNodesAdd(cn1, Tail(accs), len)

RECURSIVE BuildCycleNodes(_, _)
BuildCycleNodes(cn, cs) ==
    IF cs = << >> \/ ~Forced(cn) THEN cn
    ELSE BuildCycleNodes(CycleNodesAdd(cn, Head(cs), Len(Head(cs))), Tail(cs))

-----------------------------------------------------------------------------
(* Smurfing detection (fan-in / fan-out) *)

SMURF_THRESHOLD == 10
SMURF_WINDOW_MS == 72 * 60 * 60 * 1000

\* the keys of the Map built by grouping edges on e[field], in insertion order
GroupKeys(es, field) ==
    SetAddAll(<< >>, [i \in 1..Len(es) |-> es[i][field]])

\* the array grouped under key
GroupOf(es, field, key) == Filter(es, LAMBDA e : e[field] = key)

ByTimestamp(a, b) == a.timestamp < b.timestamp

\* a variant that drops a row exactly windowMs before the right one
RECURSIVE AdvanceLeftExclusive(_, _, _, _)
AdvanceLeftExclusive(sorted, left, right, windowMs) ==
    IF left < right /\ sorted[right].timestamp - sorted[left].timestamp >= windowMs
       THEN AdvanceLeftExclusive(sorted, left + 1, right, windowMs)
       ELSE left

\* while (sorted[right].timestamp - sorted[left].timestamp > windowMs) left++
RECURSIVE AdvanceLeft(_, _, _, _)
AdvanceLeft(sorted, left, right, windowMs) ==
    IF sorted[right].timestamp - sorted[left].timestamp > windowMs
       THEN AdvanceLeft(sorted, left + 1, right, windowMs)
       ELSE left

\* a variant that fires one counterparty short of the threshold
WindowHitOneShort(sorted, left, right, other) ==
    Cardinality({sorted[k][other] : k \in left..right}) >= SMURF_THRESHOLD - 1

\* new Set(window.map(e => e[other])).size >= SMURF_THRESHOLD
WindowHit(sorted, left, right, other) ==
    Cardinality({sorted[k][other] : k \in left..right}) >= SMURF_THRESHOLD

\* the sliding-window loop over right, from (left, right) on: TRUE iff it breaks
RECURSIVE SmurfScan(_, _, _, _)
SmurfScan(sorted, left, right, other) ==
    IF right > Len(sorted) THEN FALSE
    ELSE LET l == AdvanceLeft(sorted, left, right, SMURF_WINDOW_MS)
         IN  IF WindowHit(sorted, l, right, other) THEN TRUE
             ELSE SmurfScan(sorted, l, right + 1, other)

\* accounts of one direction: group on field, count distinct e[other]
SmurfAccounts(es, field, other) ==
    Filter(GroupKeys(es, field),
           LAMBDA acc : SmurfScan(SortBy(GroupOf(es, field, acc), ByTimestamp), 1, 1, other))

detectSmurfing(es) ==
    [fanInAccounts  |-> SmurfAccounts(es, "target", "source"),
     fanOutAccounts |-> SmurfAccounts(es, "source", "target")]

-----------------------------------------------------------------------------
(* High velocity detection *)

VELOCITY_WINDOW_MS == 24 * 60 * 60 * 1000
VELOCITY_MIN_TX == 20

RECURSIVE VelocityLeft(_, _, _)
VelocityLeft(sorted, left, right) ==
    IF sorted[right] - sorted[left] > VELOCITY_WINDOW_MS
       THEN VelocityLeft(sorted, left + 1, right)
       ELSE left

RECURSIVE VelocityScan(_, _, _)
VelocityScan(sorted, left, right) ==
    IF right > Len(sorted) THEN FALSE
    ELSE LET l == VelocityLeft(sorted, left, right)
         IN  IF right - l + 1 >= VELOCITY_MIN_TX THEN TRUE
             ELSE VelocityScan(sorted, l, right + 1)

\* a variant that scans the timestamps in file order
detectHighVelocityUnsorted(es) ==
    Filter(GroupKeys(es, "source"),
           LAMBDA sender :
               VelocityScan(Map(GroupOf(es, "source", sender), LAMBDA e : e.timestamp), 1, 1))

detectHighVelocity(es) ==
    Filter(GroupKeys(es, "source"),
           LAMBDA sender :
               VelocityScan(SortBy(Map(GroupOf(es, "source", sender),
                                       LAMBDA e : e.timestamp),
                                   LAMBDA a, b : a < b), 1, 1))

-----------------------------------------------------------------------------
(* The arrays the detectors sort *)

\* Array.prototype.sort reorders the array it is called on.  The arrays a
\* detector touches are held in a store under their names: <<"edges">> is the
\* edge list it was handed, <<"byReceiver", key>> and <<"bySender", key>> are
\* the groups it fills by push.

\* a variant in which a group is the edge list itself
EdgeArray(map, key) == <<"edges">>

\* rxEdges.sort(...), txEdges.sort(...): the array sorted is the group
GroupArray(map, key) == <<map, key>>

\* the store of detectSmurfing after the grouping loop
SmurfingArrays(es) ==
    [name \in {<<"edges">>}
               \cup {<<"byReceiver", key>> : key \in Range(GroupKeys(es, "target"))}
               \cup {<<"bySender", key>> : key \in Range(GroupKeys(es, "source"))} |->
        IF name = <<"edges">> THEN es
        ELSE IF name[1] = "byReceiver" THEN GroupOf(es, "target", name[2])
        ELSE GroupOf(es, "source", name[2])]

\* for (const [key, group] of map) { const sorted = group.sort(...); ... }
RECURSIVE SortGroups(_, _, _)
SortGroups(store, map, keys) ==
    IF keys = << >> \/ ~Forced(store) THEN store
    ELSE SortGroups([store EXCEPT ![GroupArray(map, Head(keys))] = SortBy(@, ByTimestamp)],
                    map, Tail(keys))

\* the edge list as detectSmurfing leaves it
EdgesAfterSmurfing(es) ==
    SortGroups(SortGroups(SmurfingArrays(es), "byReceiver", GroupKeys(es, "target")),
               "bySender", GroupKeys(es, "source"))[<<"edges">>]

\* the store of detectHighVelocity after the grouping loop: the groups hold
\* timestamps, which are numbers
VelocityArrays(es) ==
    [name \in {<<"edges">>}
               \cup {<<"bySender", key>> : key \in Range(GroupKeys(es, "source"))} |->
        IF name = <<"edges">> THEN es
        ELSE Map(GroupOf(es, "source", name[2]), LAMBDA e : e.timestamp)]

\* for (const [sender, timestamps] of bySender) { timestamps.sort(...); ... }
RECURSIVE SortStamps(_, _)
SortStamps(store, keys) ==
    IF keys = << >> \/ ~Forced(store) THEN store
    ELSE SortStamps([store EXCEPT ![<<"bySender", Head(keys)>>] =
                         SortBy(@, LAMBDA a, b : a < b)],
                    Tail(keys))

\* the edge list as detectHighVelocity leaves it
EdgesAfterVelocity(es) == SortStamps(VelocityArrays(es), GroupKeys(es, "source"))[<<"edges">>]

-----------------------------------------------------------------------------
(* Layered shell network detection *)

SHELL_MIN_HOPS == 3
SHELL_MAX_TX == 3

\* a variant that lets every node pass
anyNode(nNode) == TRUE

isShellIntermediate(nNode) ==
    nNode.totalTransactions >= 2 /\ nNode.totalTransactions <= SHELL_MAX_TX

\* the for loop over the neighbours of the dequeued item, from the i-th on;
\* st is {queue, visited, shellAccounts} and trace, the items ever pushed
RECURSIVE ShellNeighbors(_, _, _, _, _)
ShellNeighbors(ns, adj, item, i, st) ==
    LET neighbors == GetOr(adj, item.id)
    IN  IF i > Len(neighbors) \/ ~Forced(st) THEN st
        ELSE LET neighbor == neighbors[i]
                 st1 == IF item.depth >= SHELL_MIN_HOPS - 1
                           /\ Len(item.chain) >= SHELL_MIN_HOPS
                           THEN [st EXCEPT !.shellAccounts =
                                     SetAdd(SetAddAll(@, item.chain), neighbor)]
                           ELSE st
                 st2 == IF isShellIntermediate(ns[neighbor]) /\ item.depth < 6
                           THEN [st1 EXCEPT
                                   !.visited = @ \cup {neighbor},
                                   !.queue = Append(@, [id |-> neighbor,
                                                        depth |-> item.depth + 1,
                                                        chain |-> Append(item.chain, neighbor)]),
                                   !.trace = Append(@, [id |-> neighbor,
                                                        depth |-> item.depth + 1])]
                           ELSE st1
             IN  IF neighbor \in st.visited \/ neighbor \notin DOMAIN ns
                    THEN ShellNeighbors(ns, adj, item, i + 1, st)
                    ELSE ShellNeighbors(ns, adj, item, i + 1, st2)

\* while (queue.length > 0) { const item = queue.shift(); ... }
RECURSIVE ShellBfs(_, _, _)
ShellBfs(ns, adj, st) ==
    IF ~Forced(st) \/ st.queue = << >> THEN st
    ELSE ShellBfs(ns, adj,
                  ShellNeighbors(ns, adj, Head(st.queue), 1,
                                 [st EXCEPT !.queue = Tail(@)]))

\* the queue and the visited set with which the traversal of a seed starts
ShellStart(startId, shell) ==
    [queue |-> <<[id |-> startId, depth |-> 0, chain |-> <<startId>>]>>,
     visited |-> {startId},
     shellAccounts |-> shell,
     trace |-> <<[id |-> startId, depth |-> 0]>>]

\* for (const [startId] of nodes) { ... }
RECURSIVE ShellFrom(_, _, _, _)
ShellFrom(ns, adj, ids, shell) ==
    IF ids = << >> \/ ~Forced(shell) THEN shell
    ELSE LET startId == Head(ids)
             st == ShellBfs(ns, adj, ShellStart(startId, shell))
         IN  ShellFrom(ns, adj, Tail(ids), st.shellAccounts)

detectShellChains(ns, ids, adj) == ShellFrom(ns, adj, ids, << >>)

\* seed by seed, the items the queue of that seed's traversal ever held
ShellTraces(ns, ids, adj) ==
    [n \in 1..Len(ids) |-> ShellBfs(ns, adj, ShellStart(ids[n], << >>)).trace]

-----------------------------------------------------------------------------
(* Suspicion scoring *)

SCORES == [cycle |-> 40, fanIn |-> 25, fanOut |-> 25, shell |-> 20, velocity |-> 10]

\* the PatternType literals
CYCLE_PREFIX  == <<"c", "y", "c", "l", "e">>
CYCLE_LENGTH_ == CYCLE_PREFIX \o <<"_", "l", "e", "n", "g", "t", "h", "_">>
FAN_IN        == <<"f", "a", "n", "_", "i", "n">>
FAN_OUT       == <<"f", "a", "n", "_", "o", "u", "t">>
SHELL_CHAIN   == <<"s", "h", "e", "l", "l", "_", "c", "h", "a", "i", "n">>
HIGH_VELOCITY == <<"h", "i", "g", "h", "_", "v", "e", "l", "o", "c", "i", "t", "y">>

\* `cycle_length_${info.length}`
CycleTag(length) == CYCLE_LENGTH_ \o NumToString(length)

\* a variant without the cap
NoCap(score) == score

\* Math.min(100, score)
Cap(score) == Min(100, score)

\* the body of the loop of scoreAccounts for one node
ScoreNode(node, cn, fanIn, fanOut, shell, velocity) ==
    LET id == node.id
        c1 == IF id \in DOMAIN cn
                 THEN [score |-> SCORES.cycle, patterns |-> <<CycleTag(cn[id].length)>>]
                 ELSE [score |-> 0, patterns |-> << >>]
        c2 == IF Includes(fanIn, id)
                 THEN [score |-> c1.score + SCORES.fanIn, patterns |-> Append(c1.patterns, FAN_IN)]
                 ELSE c1
        c3 == IF Includes(fanOut, id)
                 THEN [score |-> c2.score + SCORES.fanOut, patterns |-> Append(c2.patterns, FAN_OUT)]
                 ELSE c2
        c4 == IF Includes(shell, id)
                 THEN [score |-> c3.score + SCORES.shell, patterns |-> Append(c3.patterns, SHELL_CHAIN)]
                 ELSE c3
        c5 == IF Includes(velocity, id)
                 THEN [score |-> c4.score + SCORES.velocity, patterns |-> Append(c4.patterns, HIGH_VELOCITY)]
                 ELSE c4
    IN  [node EXCEPT
           !.ringId = IF id \in DOMAIN cn THEN cn[id].ringId ELSE @,
           !.suspicionScore = Cap(c5.score),
           !.detectedPatterns = c5.patterns,
           !.isSuspicious = c5.score > 0]

scoreAccounts(ns, cn, fanIn, fanOut, shell, velocity) ==
    [id \in DOMAIN ns |-> ScoreNode(ns[id], cn, fanIn, fanOut, shell, velocity)]

-----------------------------------------------------------------------------
(* Numbers: IEEE 754 binary64, round to nearest, ties to even *)

\* A natural number of any size is a sequence of limbs, the least significant
\* first and the last one not 0; << >> is 0.
LIMB == 32768
LIMB_BITS == 15

RECURSIVE BTrim(_)
BTrim(a) ==
    IF a = << >> THEN a
    ELSE IF a[Len(a)] = 0 THEN BTrim(SubSeq(a, 1, Len(a) - 1)) ELSE a

RECURSIVE BFromInt(_)
BFromInt(k) == IF k = 0 THEN << >> ELSE <<k % LIMB>> \o BFromInt(k \div LIMB)

BLimb(a, i) == IF i <= Len(a) THEN a[i] ELSE 0

RECURSIVE BAddAt(_, _, _, _)
BAddAt(a, b, i, carry) ==
    IF i > Len(a) /\ i > Len(b) THEN IF carry = 0 THEN << >> ELSE <<carry>>
    ELSE LET s == BLimb(a, i) + BLimb(b, i) + carry
         IN  <<s % LIMB>> \o BAddAt(a, b, i + 1, s \div LIMB)

BAdd(a, b) == BAddAt(a, b, 1, 0)

\* a - b for a >= b
RECURSIVE BSubAt(_, _, _, _)
BSubAt(a, b, i, borrow) ==
    IF i > Len(a) THEN << >>
    ELSE LET d == a[i] - BLimb(b, i) - borrow
         IN  IF d < 0 THEN <<d + LIMB>> \o BSubAt(a, b, i + 1, 1)
                      ELSE <<d>> \o BSubAt(a, b, i + 1, 0)

BSub(a, b) == BTrim(BSubAt(a, b, 1, 0))

RECURSIVE BCmpAt(_, _, _)
BCmpAt(a, b, i) ==
    IF i = 0 THEN 0
    ELSE IF a[i] > b[i] THEN 1
    ELSE IF a[i] < b[i] THEN -1
    ELSE BCmpAt(a, b, i - 1)

\* -1, 0 or 1 as a < b, a = b or a > b
BCmp(a, b) ==
    IF Len(a) > Len(b) THEN 1
    ELSE IF Len(a) < Len(b) THEN -1
    ELSE BCmpAt(a, b, Len(a))

\* a * k + carry for a limb k
RECURSIVE BMulLimbAt(_, _, _, _)
BMulLimbAt(a, k, i, carry) ==
    IF i > Len(a) THEN IF carry = 0 THEN << >> ELSE <<carry>>
    ELSE LET p == a[i] * k + carry
         IN  <<p % LIMB>> \o BMulLimbAt(a, k, i + 1, p \div LIMB)

BMulLimb(a, k) == IF k = 0 THEN << >> ELSE BMulLimbAt(a, k, 1, 0)

\* a * LIMB^n
BShiftLimbs(a, n) == IF a = << >> THEN a ELSE [i \in 1..n |-> 0] \o a

RECURSIVE BMul(_, _)
BMul(a, b) ==
    IF b = << >> THEN << >>
    ELSE BAdd(BMulLimb(a, Head(b)), BShiftLimbs(BMul(a, Tail(b)), 1))

\* a * 2^k
BShl(a, k) == BShiftLimbs(BMulLimb(a, 2 ^ (k % LIMB_BITS)), k \div LIMB_BITS)

\* a \div 2^k
BShr(a, k) ==
    LET n == k \div LIMB_BITS
        r == k % LIMB_BITS
        b == SubSeq(a, n + 1, Len(a))
    IN  BTrim([i \in 1..Len(b) |->
                  (b[i] \div 2 ^ r) + (BLimb(b, i + 1) % 2 ^ r) * 2 ^ (LIMB_BITS - r)])

\* a % 2^k
BLow(a, k) == BSub(a, BShl(BShr(a, k), k))

RECURSIVE BitLen(_)
BitLen(k) == IF k = 0 THEN 0 ELSE 1 + BitLen(k \div 2)

BBitLen(a) == IF a = << >> THEN 0 ELSE (Len(a) - 1) * LIMB_BITS + BitLen(a[Len(a)])

\* bit i of a, bit 0 the least significant
BBit(a, i) == (BLimb(a, i \div LIMB_BITS + 1) \div 2 ^ (i % LIMB_BITS)) % 2

\* 2 * a + bit
BDouble(a, bit) == BAdd(BAdd(a, a), IF bit = 1 THEN <<1>> ELSE << >>)

\* the largest digit d <= guess with d * b <= r
RECURSIVE BDigit(_, _, _)
BDigit(b, r, guess) ==
    IF BCmp(BMulLimb(b, guess), r) > 0 THEN BDigit(b, r, guess - 1) ELSE guess

\* long division by b, whose last limb is at least LIMB / 2, one limb of a at
\* a time from limb j down; st is [q, r] for the limbs above j.  The guess
\* from the two leading limbs of the remainder is at most 2 too large.
RECURSIVE BDivLimbs(_, _, _, _)
BDivLimbs(a, b, j, st) ==
    IF j = 0 \/ ~Forced(st) THEN st
    ELSE LET rem == BTrim(<<a[j]>> \o st.r)
             lead == BLimb(rem, Len(b) + 1) * LIMB + BLimb(rem, Len(b))
             digit == BDigit(b, rem, Min(LIMB - 1, lead \div b[Len(b)]))
         IN  BDivLimbs(a, b, j - 1,
                       [q |-> <<digit>> \o st.q, r |-> BSub(rem, BMulLimb(b, digit))])

\* [q, r] with a = q * b + r and r < b, for b # 0
BDivMod(a, b) ==
    LET norm == (LIMB_BITS - (BBitLen(b) % LIMB_BITS)) % LIMB_BITS
        st == BDivLimbs(BShl(a, norm), BShl(b, norm), Len(BShl(a, norm)),
                        [q |-> << >>, r |-> << >>])
    IN  [q |-> BTrim(st.q), r |-> BShr(st.r, norm)]

\* Newton's iteration downwards from a root that is not too small
RECURSIVE BSqrtFrom(_, _)
BSqrtFrom(a, root) ==
    LET next == BShr(BAdd(root, BDivMod(a, root).q), 1)
    IN  IF BCmp(next, root) < 0 THEN BSqrtFrom(a, next) ELSE root

\* the integer square root
BSqrt(a) == IF a = << >> THEN a ELSE BSqrtFrom(a, BShl(<<1>>, (BBitLen(a) + 1) \div 2))

\* A double is (-1)^neg * m * 2^e with m = 0 or 2^52 <= m < 2^53.  The amounts
\* of a batch and everything computed from them are far from the overflow and
\* the subnormal range, so e is not bounded.
MANTISSA_BITS == 53

DZero == [neg |-> FALSE, m |-> << >>, e |-> 0]

\* the double nearest to (-1)^neg * N * 2^e, ties to the even mantissa
DRound(neg, N, e) ==
    LET len == BBitLen(N)
        sh == len - MANTISSA_BITS
    IN  IF N = << >> THEN DZero
        ELSE IF sh <= 0 THEN [neg |-> neg, m |-> BShl(N, -sh), e |-> e + sh]
        ELSE LET q == BShr(N, sh)
                 c == BCmp(BLow(N, sh), BShl(<<1>>, sh - 1))
                 up == c > 0 \/ (c = 0 /\ q[1] % 2 = 1)
                 q1 == IF up THEN BAdd(q, <<1>>) ELSE q
             IN  IF BBitLen(q1) > MANTISSA_BITS
                    THEN [neg |-> neg, m |-> BShr(q1, 1), e |-> e + sh + 1]
                    ELSE [neg |-> neg, m |-> q1, e |-> e + sh]

\* an integer below 2^53 as a double
DFromInt(k) ==
    IF k < 0 THEN DRound(TRUE, BFromInt(-k), 0) ELSE DRound(FALSE, BFromInt(k), 0)

DNeg(x) == IF x.m = << >> THEN x ELSE [neg |-> ~x.neg, m |-> x.m, e |-> x.e]

\* x + y
DAdd(x, y) ==
    IF x.m = << >> THEN y
    ELSE IF y.m = << >> THEN x
    ELSE LET low == Min(x.e, y.e)
             X == BShl(x.m, x.e - low)
             Y == BShl(y.m, y.e - low)
             c == BCmp(X, Y)
         IN  IF x.neg = y.neg THEN DRound(x.neg, BAdd(X, Y), low)
             ELSE IF c = 0 THEN DZero
             ELSE IF c > 0 THEN DRound(x.neg, BSub(X, Y), low)
             ELSE DRound(y.neg, BSub(Y, X), low)

\* x - y
DSub(x, y) == DAdd(x, DNeg(y))

\* x * y
DMul(x, y) == DRound(x.neg # y.neg, BMul(x.m, y.m), x.e + y.e)

\* the quotient and the root are computed to this many bits past the operand
\* and one more bit tells whether anything was cut off, so that DRound sees on
\* which side of a tie the exact value lies
GUARD_BITS == 58

\* x / y for y # 0
DDiv(x, y) ==
    IF x.m = << >> THEN DZero
    ELSE LET d == BDivMod(BShl(x.m, GUARD_BITS), y.m)
         IN  DRound(x.neg # y.neg, BDouble(d.q, IF d.r = << >> THEN 0 ELSE 1),
                    x.e - y.e - GUARD_BITS - 1)

\* Math.sqrt(x) for x >= 0
DSqrt(x) ==
    IF x.m = << >> THEN DZero
    ELSE LET shift == IF (x.e - GUARD_BITS) % 2 = 0 THEN GUARD_BITS ELSE GUARD_BITS + 1
             square == BShl(x.m, shift)
             root == BSqrt(square)
         IN  DRound(FALSE, BDouble(root, IF BMul(root, root) = square THEN 0 ELSE 1),
                    (x.e - shift) \div 2 - 1)

\* x < y
DLess(x, y) ==
    LET d == DSub(x, y)
    IN  d.m # << >> /\ d.neg

\* reduce((a, b) => a + b, 0)
RECURSIVE DSumFrom(_, _)
DSumFrom(acc, xs) ==
    IF xs = << >> \/ ~Forced(acc) THEN acc ELSE DSumFrom(DAdd(acc, Head(xs)), Tail(xs))

DSum(xs) == DSumFrom(DZero, xs)

-----------------------------------------------------------------------------
(* False positive filtering *)

\* the literal 0.05, the double nearest to 5/100
CV_LIMIT == DDiv(DFromInt(5), DFromInt(100))

\* mean, std and cv as the filter computes them; (x - mean) ** 2 is x * x of
\* the difference
CoefficientOfVariation(amounts) ==
    LET count == DFromInt(Len(amounts))
        values == [i \in 1..Len(amounts) |-> DFromInt(amounts[i])]
        mean == DDiv(DSum(values), count)
        squares == [i \in 1..Len(amounts) |->
                       LET diff == DSub(values[i], mean) IN DMul(diff, diff)]
        std == DSqrt(DDiv(DSum(squares), count))
    IN  IF DLess(DZero, mean) THEN DDiv(std, mean) ELSE DZero

\* amounts.length >= 10 and cv < 0.05
IsPayroll(amounts) ==
    Len(amounts) >= 10 /\ DLess(CoefficientOfVariation(amounts), CV_LIMIT)

\* a variant for which no tag counts as a cycle tag
NoCycleTag(node) == FALSE

\* node.detectedPatterns.some(p => p.startsWith('cycle'))
HasCycleTag(node) ==
    \E i \in 1..Len(node.detectedPatterns) : StartsWith(node.detectedPatterns[i], CYCLE_PREFIX)

\* a variant that stores the remaining tags in reverse
FilterNodeReversed(node) ==
    IF ~Includes(node.detectedPatterns, FAN_OUT) \/ HasCycleTag(node) THEN node
    ELSE LET kept == Filter(node.detectedPatterns, LAMBDA p : p # FAN_OUT)
             patterns == [n \in 1..Len(kept) |-> kept[Len(kept) + 1 - n]]
             score == Max(0, node.suspicionScore - SCORES.fanOut)
         IN  IF Len(patterns) = 0
                THEN [node EXCEPT !.detectedPatterns = patterns,
                                  !.isSuspicious = FALSE, !.suspicionScore = 0]
                ELSE [node EXCEPT !.detectedPatterns = patterns, !.suspicionScore = score]

\* a variant that drops the tag and the points but never clears the flag
FilterNodeKeepsFlag(node) ==
    IF ~Includes(node.detectedPatterns, FAN_OUT) \/ HasCycleTag(node) THEN node
    ELSE [node EXCEPT
            !.detectedPatterns = Filter(node.detectedPatterns, LAMBDA p : p # FAN_OUT),
            !.suspicionScore = Max(0, node.suspicionScore - SCORES.fanOut)]

\* the guarded update of one payroll sender
FilterNode(node) ==
    IF ~Includes(node.detectedPatterns, FAN_OUT) \/ HasCycleTag(node) THEN node
    ELSE LET patterns == Filter(node.detectedPatterns, LAMBDA p : p # FAN_OUT)
             score == Max(0, node.suspicionScore - SCORES.fanOut)
         IN  IF Len(patterns) = 0
                THEN [node EXCEPT !.detectedPatterns = patterns,
                                  !.isSuspicious = FALSE, !.suspicionScore = 0]
                ELSE [node EXCEPT !.detectedPatterns = patterns, !.suspicionScore = score]

\* for (const [sender, amounts] of bySender) { ... }
RECURSIVE FilterSenders(_, _, _)
FilterSenders(ns, es, senders) ==
    IF senders = << >> \/ ~Forced(ns) THEN ns
    ELSE LET sender == Head(senders)
             amounts == Map(GroupOf(es, "source", sender), LAMBDA e : e.amount)
             ns1 == IF sender \in DOMAIN ns /\ IsPayroll(amounts)
                       THEN [ns EXCEPT ![sender] = FilterNode(@)]
                       ELSE ns
         IN  FilterSenders(ns1, es, Tail(senders))

filterFalsePositives(ns, es) == FilterSenders(ns, es, GroupKeys(es, "source"))

-----------------------------------------------------------------------------
(* Fraud ring assembly *)

RING_ == <<"R", "I", "N", "G", "_">>

\* a variant that forgets the padding
RingIdUnpadded(n) == RING_ \o NumToString(n)

\* `RING_${String(n).padStart(3, '0')}`
RingId(n) == RING_ \o PadStart(NumToString(n), 3, "0")

\* the first member of cycle that ringIdMap holds, or null (<< >>)
RECURSIVE FirstMapped(_, _)
FirstMapped(cycle, ringIdMap) ==
    IF cycle = << >> THEN << >>
    ELSE IF Head(cycle) \in DOMAIN ringIdMap THEN ringIdMap[Head(cycle)]
    ELSE FirstMapped(Tail(cycle), ringIdMap)

\* for (const k of keys) m.set(k, v)
MapSetAll(m, keys, v) ==
    [x \in (DOMAIN m) \cup Range(keys) |-> IF x \in Range(keys) THEN v ELSE m[x]]

\* one iteration of the loop over cycles; st is {ringCounter, groupIds,
\* cycleGroups, ringIdMap}, groupIds the keys of cycleGroups in insertion order
MergeCycle(st, cycle) ==
    LET found == FirstMapped(cycle, st.ringIdMap)
        fresh == found = << >>
        counter == IF fresh THEN st.ringCounter + 1 ELSE st.ringCounter
        mergedRingId == IF fresh THEN RingId(counter) ELSE found
        groups == IF fresh THEN MapSet(st.cycleGroups, mergedRingId, << >>)
                  ELSE st.cycleGroups
    IN  [ringCounter |-> counter,
         groupIds    |-> IF fresh THEN Append(st.groupIds, mergedRingId) ELSE st.groupIds,
         cycleGroups |-> [groups EXCEPT ![mergedRingId] = SetAddAll(@, cycle)],
         ringIdMap   |-> MapSetAll(st.ringIdMap, cycle, mergedRingId)]

RECURSIVE MergeCycles(_, _)
MergeCycles(st, cs) ==
    IF cs = << >> \/ ~Forced(st) THEN st
    ELSE MergeCycles(MergeCycle(st, Head(cs)), Tail(cs))

\* reduce((sum, acc) => sum + (nodes.get(acc)?.suspicionScore ?? 0), 0)
ScoreSum(ns, arr) ==
    SumSeq([i \in 1..Len(arr) |->
               IF arr[i] \in DOMAIN ns THEN ns[arr[i]].suspicionScore ELSE 0])

NewRing(ringId, arr, type, ns) ==
    [ring_id |-> ringId, member_accounts |-> arr, pattern_type |-> type,
     risk_score |-> RoundTenths(ScoreSum(ns, arr), Len(arr))]

\* a variant that leaves the node as scoreAccounts left it
KeepRingId(node, ringId) == node

\* if (node) node.ringId = ringId
SetRingId(node, ringId) == [node EXCEPT !.ringId = ringId]

\* the loop over cycleGroups: push the ring, then node.ringId = ringId for
\* every member; rs is {rings, nodes}
RECURSIVE CycleRings(_, _, _)
CycleRings(rs, groupIds, cycleGroups) ==
    IF groupIds = << >> \/ ~Forced(rs) THEN rs
    ELSE LET ringId == Head(groupIds)
             memberArr == cycleGroups[ringId]
         IN  CycleRings([rings |-> Append(rs.rings, NewRing(ringId, memberArr, "cycle", rs.nodes)),
                         nodes |-> [id \in DOMAIN rs.nodes |->
                                       IF Includes(memberArr, id)
                                          THEN SetRingId(rs.nodes[id], ringId)
                                          ELSE rs.nodes[id]]],
                        Tail(groupIds), cycleGroups)

\* a variant that makes no ring of a single candidate
PatternRingOfTwo(rs, arr, type) ==
    IF Len(arr) > 1
       THEN LET ringId == RingId(rs.ringCounter + 1)
            IN  [rings |-> Append(rs.rings, NewRing(ringId, arr, type, rs.nodes)),
                 nodes |-> [id \in DOMAIN rs.nodes |->
                               IF Includes(arr, id) /\ Falsy(rs.nodes[id].ringId)
                                  THEN [rs.nodes[id] EXCEPT !.ringId = ringId]
                                  ELSE rs.nodes[id]],
                 ringCounter |-> rs.ringCounter + 1]
       ELSE rs

\* a fan-in, fan-out or shell ring over the filtered candidates arr;
\* rs is {rings, nodes, ringCounter}
PatternRing(rs, arr, type) ==
    IF Len(arr) > 0
       THEN LET ringId == RingId(rs.ringCounter + 1)
            IN  [rings |-> Append(rs.rings, NewRing(ringId, arr, type, rs.nodes)),
                 nodes |-> [id \in DOMAIN rs.nodes |->
                               IF Includes(arr, id) /\ Falsy(rs.nodes[id].ringId)
                                  THEN [rs.nodes[id] EXCEPT !.ringId = ringId]
                                  ELSE rs.nodes[id]],
                 ringCounter |-> rs.ringCounter + 1]
       ELSE rs

\* a variant that numbers on from the previous call
KeepCounter(counter) == counter

\* ringCounter = 0 on entry
ResetCounter(counter) == 0

\* the result is {rings, nodes, ringCounter}: the rings returned, the node
\* table with ring ids written, and the module-level counter on return
assembleFraudRings(cs, fanIn, fanOut, shell, ns, counter) ==
    LET st == MergeCycles([ringCounter |-> ResetCounter(counter), groupIds |-> << >>,
                           cycleGroups |-> << >>, ringIdMap |-> << >>], cs)
        r1 == CycleRings([rings |-> << >>, nodes |-> ns], st.groupIds, st.cycleGroups)
        inRing(acc) == acc \in DOMAIN st.ringIdMap
        fanInArr  == Filter(fanIn, LAMBDA acc : ~inRing(acc))
        r2 == PatternRing([rings |-> r1.rings, nodes |-> r1.nodes,
                           ringCounter |-> st.ringCounter], fanInArr, "fan_in")
        fanOutArr == Filter(fanOut, LAMBDA acc : ~inRing(acc) /\ ~Includes(fanIn, acc))
        r3 == PatternRing(r2, fanOutArr, "fan_out")
        shellArr  == Filter(shell, LAMBDA acc : /\ ~inRing(acc)
                                                /\ ~Includes(fanIn, acc)
                                                /\ ~Includes(fanOut, acc))
    IN  PatternRing(r3, shellArr, "shell_chain")

-----------------------------------------------------------------------------
(* Report *)

\* a variant that lists every account
AllAccounts(ns, ids) ==
    LET all == [i \in 1..Len(ids) |-> ns[ids[i]]]
        sorted == SortBy(all, LAMBDA a, b : b.suspicionScore - a.suspicionScore < 0)
    IN  Map(sorted, LAMBDA n : [account_id |-> n.id,
                                suspicion_score |-> RoundTenths(n.suspicionScore, 1),
                                detected_patterns |-> n.detectedPatterns,
                                ring_id |-> n.ringId])

\* Array.from(nodes.values()).filter(...).sort(...).map(...)
SuspiciousAccounts(ns, ids) ==
    LET all == [i \in 1..Len(ids) |-> ns[ids[i]]]
        kept == Filter(all, LAMBDA n : n.isSuspicious /\ n.suspicionScore > 0)
        sorted == SortBy(kept, LAMBDA a, b : b.suspicionScore - a.suspicionScore < 0)
    IN  Map(sorted, LAMBDA n : [account_id |-> n.id,
                                suspicion_score |-> RoundTenths(n.suspicionScore, 1),
                                detected_patterns |-> n.detectedPatterns,
                                ring_id |-> n.ringId])

\* processing_time_seconds is wall-clock time and is left out
BuildReport(ns, ids, rings) ==
    LET suspiciousAccounts == SuspiciousAccounts(ns, ids)
    IN  [suspicious_accounts |-> suspiciousAccounts,
         fraud_rings |-> rings,
         summary |-> [total_accounts_analyzed |-> Cardinality(DOMAIN ns),
                      suspicious_accounts_flagged |-> Len(suspiciousAccounts),
                      fraud_rings_detected |-> Len(rings)]]

-----------------------------------------------------------------------------
(* The page before a file is dropped (src/src/pages/Index.tsx) *)

\* the useState initial values of CSVUpload
NoUpload == [isLoading |-> FALSE, errors |-> << >>, fileName |-> << >>, successInfo |-> Null]

\* the useState initial values of Index, with the CSVUpload it mounts
PageIdle ==
    /\ appState = "upload" /\ result = Null /\ fileName = << >>
    /\ processingError = << >> /\ progressMsg = << >>
    /\ upload = NoUpload /\ tasks = << >> /\ started = 0

-----------------------------------------------------------------------------
(* analyzeTransactions, one action per call it makes *)

\* prev remembers an earlier call: its input, what it returned and what its
\* detectors found; between tells whether a call on another input followed it,
\* entry is the value of ringCounter with which the present call was entered
NoPrev ==
    [valid |-> FALSE, transactions |-> << >>, report |-> << >>, nodes |-> << >>,
     adjacency |-> << >>, shellAccounts |-> << >>, between |-> FALSE, entry |-> 0]

Remember ==
    [valid |-> TRUE, transactions |-> transactions, report |-> report, nodes |-> nodes,
     adjacency |-> adjacency, shellAccounts |-> shellAccounts, between |-> FALSE,
     entry |-> ringCounter]

Locals ==
    /\ nodeIds = << >> /\ nodes = << >> /\ edges = << >>
    /\ adjacency = << >> /\ reverseAdj = << >>
    /\ cycles = << >> /\ maxPath = 0 /\ cycleNodes = << >>
    /\ fanInAccounts = << >> /\ fanOutAccounts = << >>
    /\ shellAccounts = << >> /\ highVelocity = << >>
    /\ fraudRings = << >> /\ report = << >>
    /\ shellTrace = << >> /\ ran = {}

\* const { nodes, edges, adjacency } = buildGraph(transactions)
BuildGraph ==
    /\ pc = "input"
    /\ LET g == buildGraph(transactions)
       IN  /\ nodeIds' = g.nodeIds
           /\ nodes' = g.nodes
           /\ edges' = g.edges
           /\ adjacency' = g.adjacency
           /\ reverseAdj' = g.reverseAdj
    /\ pc' = "graph"
    /\ UNCHANGED <<transactions, cycles, maxPath, cycleNodes, fanInAccounts,
                   fanOutAccounts, shellAccounts, highVelocity, fraudRings,
                   ringCounter, report, prev, shellTrace, ran, page>>

\* const { cycles } = detectCycles(adjacency, nodeIds), then the cycleNodes loop
DetectCycles ==
    /\ pc = "graph"
    /\ LET r == detectCycles(adjacency, nodeIds)
       IN  /\ cycles' = r.cycles
           /\ maxPath' = r.maxPath
           /\ cycleNodes' = BuildCycleNodes(<< >>, r.cycles)
    /\ pc' = "cycles"
    /\ UNCHANGED <<transactions, nodeIds, nodes, edges, adjacency, reverseAdj,
                   fanInAccounts, fanOutAccounts, shellAccounts, highVelocity,
                   fraudRings, ringCounter, report, prev, shellTrace, ran, page>>

DetectSmurfing ==
    /\ pc = "cycles"
    /\ LET r == detectSmurfing(edges)
       IN  /\ fanInAccounts' = r.fanInAccounts
           /\ fanOutAccounts' = r.fanOutAccounts
    /\ pc' = "smurfing"
    /\ UNCHANGED <<transactions, nodeIds, nodes, edges, adjacency, reverseAdj,
                   cycles, maxPath, cycleNodes, shellAccounts, highVelocity,
                   fraudRings, ringCounter, report, prev, shellTrace, ran, page>>

DetectShellChains ==
    /\ pc = "smurfing"
    /\ shellAccounts' = detectShellChains(nodes, nodeIds, adjacency)
    /\ shellTrace' = ShellTraces(nodes, nodeIds, adjacency)
    /\ pc' = "shell"
    /\ UNCHANGED <<transactions, nodeIds, nodes, edges, adjacency, reverseAdj,
                   cycles, maxPath, cycleNodes, fanInAccounts, fanOutAccounts,
                   highVelocity, fraudRings, ringCounter, report, prev, ran, page>>

DetectHighVelocity ==
    /\ pc = "shell"
    /\ highVelocity' = detectHighVelocity(edges)
    /\ pc' = "velocity"
    /\ UNCHANGED <<transactions, nodeIds, nodes, edges, adjacency, reverseAdj,
                   cycles, maxPath, cycleNodes, fanInAccounts, fanOutAccounts,
                   shellAccounts, fraudRings, ringCounter, report, prev, shellTrace, ran, page>>

ScoreAccounts ==
    /\ pc = "velocity"
    /\ nodes' = scoreAccounts(nodes, cycleNodes, fanInAccounts, fanOutAccounts,
                              shellAccounts, highVelocity)
    /\ pc' = "scored"
    /\ UNCHANGED <<transactions, nodeIds, edges, adjacency, reverseAdj, cycles,
                   maxPath, cycleNodes, fanInAccounts, fanOutAccounts,
                   shellAccounts, highVelocity, fraudRings, ringCounter, report, prev, shellTrace, ran, page>>

FilterFalsePositives ==
    /\ pc = "scored"
    /\ nodes' = filterFalsePositives(nodes, edges)
    /\ pc' = "filtered"
    /\ UNCHANGED <<transactions, nodeIds, edges, adjacency, reverseAdj, cycles,
                   maxPath, cycleNodes, fanInAccounts, fanOutAccounts,
                   shellAccounts, highVelocity, fraudRings, ringCounter, report, prev, shellTrace, ran, page>>

AssembleFraudRings ==
    /\ pc = "filtered"
    /\ LET r == assembleFraudRings(cycles, fanInAccounts, fanOutAccounts,
                                   shellAccounts, nodes, ringCounter)
       IN  /\ fraudRings' = r.rings
           /\ nodes' = r.nodes
           /\ ringCounter' = r.ringCounter
    /\ pc' = "assembled"
    /\ UNCHANGED <<transactions, nodeIds, edges, adjacency, reverseAdj, cycles,
                   maxPath, cycleNodes, fanInAccounts, fanOutAccounts,
                   shellAccounts, highVelocity, report, prev, shellTrace, ran, page>>

\* steps 9 and 10: the suspicious accounts list and the returned result
Return ==
    /\ pc = "assembled"
    /\ report' = BuildReport(nodes, nodeIds, fraudRings)
    /\ pc' = "done"
    /\ UNCHANGED <<transactions, nodeIds, nodes, edges, adjacency, reverseAdj,
                   cycles, maxPath, cycleNodes, fanInAccounts, fanOutAccounts,
                   shellAccounts, highVelocity, fraudRings, ringCounter, prev, shellTrace, ran, page>>

Analyze ==
    \/ BuildGraph
    \/ DetectCycles
    \/ DetectSmurfing
    \/ DetectShellChains
    \/ DetectHighVelocity
    \/ ScoreAccounts
    \/ FilterFalsePositives
    \/ AssembleFraudRings
    \/ Return

-----------------------------------------------------------------------------
(* Input batches *)

HOUR == 60 * 60 * 1000

Tx(k, s, r, a, t) ==
    [transaction_id |-> <<"T">> \o NumToString(k), sender_id |-> s, receiver_id |-> r,
     amount |-> a, timestampMs |-> t]

A  == <<"A">>
B  == <<"B">>
C  == <<"C">>
D  == <<"D">>
E  == <<"E">>
F  == <<"F">>
AB == <<"A", "|", "B">>
P  == <<"P">>
Q  == <<"Q">>
R  == <<"R">>
V  == <<"V">>
X  == <<"X">>
Y  == <<"Y">>
Z  == <<"Z">>
S1 == <<"S", "1">>
S2 == <<"S", "2">>
T  == <<"T">>
L(k) == <<"L">> \o NumToString(k)
M(k) == <<"M">> \o NumToString(k)

\* the rows of the blocks picked by sel, in block order
RECURSIVE Rows(_, _, _)
Rows(blocks, sel, i) ==
    IF i > Len(blocks) THEN << >>
    ELSE (IF i \in sel THEN blocks[i] ELSE << >>) \o Rows(blocks, sel, i + 1)

\* every file made of some of the first n blocks, kept in block order
Batches(blocks, n) ==
    {Rows(blocks, sel, 1) : sel \in SUBSET (1..Min(n, Len(blocks)))}

\* Transfers: single transfers, one an hour.  Two disjoint triangles (F D E and
\* A B C), bridges between them, and an account whose id holds the character
\* '|' can be formed.
Transfer(k, s, r) == <<Tx(k, s, r, 10 + k, k * HOUR)>>

TransferBlocks ==
    <<Transfer(1, F, D), Transfer(2, A, B), Transfer(3, B, C), Transfer(4, C, A),
      Transfer(5, D, E), Transfer(6, E, F), Transfer(7, C, E), Transfer(8, E, A),
      Transfer(9, AB, C), Transfer(10, E, AB), Transfer(11, A, C), Transfer(12, C, B)>>

NumTransfers == 10

\* Loops: a six-cycle through A..F, the back edge of a two-cycle, a self-loop,
\* and chords that cut the six-cycle into shorter ones.
LoopBlocks ==
    <<Transfer(21, A, B), Transfer(22, B, C), Transfer(23, C, D), Transfer(24, D, E),
      Transfer(25, E, F), Transfer(26, F, A), Transfer(27, B, A), Transfer(28, A, A),
      Transfer(29, C, A), Transfer(30, E, A)>>

NumLoops == 8

\* Patterns: bursts around the accounts P, Q and X.  Every amount sent by P or
\* X is 10 except in PaysOdd; Q pays a different amount to each receiver.
Triangle(k, a, b, c) ==
    <<Tx(k, a, b, 10, 0), Tx(k + 1, b, c, 10, HOUR), Tx(k + 2, c, a, 10, 2 * HOUR)>>

\* n senders L(1)..L(n) pay r once each, an hour apart
FanIn(k, r, n) == [i \in 1..n |-> Tx(k + i, L(i), r, 10 + i, i * HOUR)]

\* s pays n receivers M(1)..M(n) once each, an hour apart; the i-th amount is
\* amount + i * step
FanOut(k, s, n, amount, step) ==
    [i \in 1..n |-> Tx(k + i, s, M(i), amount + i * step, i * HOUR)]

\* s pays r n times within n minutes
Burst(k, s, r, n, amount) ==
    [i \in 1..n |-> Tx(k + i, s, r, amount, i * 60 * 1000)]

\* a chain of three hops through S1 and S2, which occur nowhere else
Chain(k, s, t) ==
    <<Tx(k, s, S1, 10, 3 * HOUR), Tx(k + 1, S1, S2, 10, 4 * HOUR),
      Tx(k + 2, S2, t, 10, 5 * HOUR)>>

PatternBlocks ==
    <<Triangle(100, P, Q, R),
      Triangle(110, X, Y, Z),
      FanIn(200, P, SMURF_THRESHOLD),
      FanOut(300, P, SMURF_THRESHOLD, 10, 0),
      <<Tx(400, P, M(1), 40, 6 * HOUR)>>,
      Burst(500, P, V, VELOCITY_MIN_TX, 10),
      Chain(600, P, X),
      FanOut(700, Q, SMURF_THRESHOLD, 10, 1),
      FanOut(800, X, SMURF_THRESHOLD, 10, 0),
      FanIn(900, Q, SMURF_THRESHOLD)>>

NumPatterns == 9

Init ==
    /\ transactions \in Batches(TransferBlocks, NumTransfers)
                        \cup Batches(LoopBlocks, NumLoops)
                        \cup Batches(PatternBlocks, NumPatterns)
    /\ pc = "input"
    /\ Locals
    /\ ringCounter = 0
    /\ prev = NoPrev
    /\ PageIdle

Next == Analyze

Spec == Init /\ [][Next]_vars

-----------------------------------------------------------------------------
(* Repeated calls in one process.  Index.tsx calls analyzeTransactions once
   for every file the user uploads; the module keeps ringCounter between the
   calls and everything else is built anew. *)

RunBlocks ==
    <<Triangle(100, P, Q, R),
      FanIn(200, P, SMURF_THRESHOLD),
      FanOut(700, Q, SMURF_THRESHOLD, 10, 1),
      Chain(600, P, X),
      Triangle(110, X, Y, Z),
      FanOut(800, X, SMURF_THRESHOLD, 10, 0)>>

NumRunBlocks == 4

\* the next call: the finished one is remembered, or an earlier memory is kept
Call ==
    /\ pc = "done"
    /\ transactions' \in Batches(RunBlocks, NumRunBlocks)
    /\ \/ prev' = Remember
       \/ /\ prev.valid
          /\ prev' = [prev EXCEPT !.between = @ \/ transactions # prev.transactions,
                                  !.entry = ringCounter]
    /\ pc' = "input"
    /\ nodeIds' = << >> /\ nodes' = << >> /\ edges' = << >>
    /\ adjacency' = << >> /\ reverseAdj' = << >>
    /\ cycles' = << >> /\ maxPath' = 0 /\ cycleNodes' = << >>
    /\ fanInAccounts' = << >> /\ fanOutAccounts' = << >>
    /\ shellAccounts' = << >> /\ highVelocity' = << >>
    /\ fraudRings' = << >> /\ report' = << >>
    /\ shellTrace' = << >> /\ ran' = {}
    /\ UNCHANGED <<ringCounter, page>>

InitRuns ==
    /\ transactions \in Batches(RunBlocks, NumRunBlocks)
    /\ pc = "input"
    /\ Locals
    /\ ringCounter = 0
    /\ prev = NoPrev
    /\ PageIdle

NextRuns == Analyze \/ Call

SpecRuns == InitRuns /\ [][NextRuns]_vars

-----------------------------------------------------------------------------
(* A batch and the same batch with one more row *)

ExtendBlocks ==
    <<Transfer(2, A, B), Transfer(3, B, C),
      FanOut(300, P, SMURF_THRESHOLD - 2, 10, 0),
      <<Tx(309, P, M(SMURF_THRESHOLD - 1), 10, 9 * HOUR)>>,
      <<Tx(310, P, M(SMURF_THRESHOLD), 10, 10 * HOUR)>>,
      Burst(500, P, V, VELOCITY_MIN_TX - SMURF_THRESHOLD - 1, 10),
      Transfer(5, D, E)>>

NumExtendBlocks == 6

\* the rows that may be added
ExtraRows ==
    {Tx(901, C, D, 10, 12 * HOUR),
     Tx(902, C, A, 10, 12 * HOUR),
     Tx(903, P, M(SMURF_THRESHOLD), 10, 12 * HOUR),
     Tx(904, P, M(1), 40, 12 * HOUR),
     Tx(905, P, V, 10, 12 * HOUR)}

\* the analysed batch is remembered and analysed again with one more row
Extend ==
    /\ pc = "done"
    /\ ~prev.valid
    /\ \E tx \in ExtraRows : transactions' = Append(transactions, tx)
    /\ prev' = Remember
    /\ pc' = "input"
    /\ nodeIds' = << >> /\ nodes' = << >> /\ edges' = << >>
    /\ adjacency' = << >> /\ reverseAdj' = << >>
    /\ cycles' = << >> /\ maxPath' = 0 /\ cycleNodes' = << >>
    /\ fanInAccounts' = << >> /\ fanOutAccounts' = << >>
    /\ shellAccounts' = << >> /\ highVelocity' = << >>
    /\ fraudRings' = << >> /\ report' = << >>
    /\ shellTrace' = << >> /\ ran' = {}
    /\ UNCHANGED <<ringCounter, page>>

InitExtend ==
    /\ transactions \in Batches(ExtendBlocks, NumExtendBlocks)
    /\ pc = "input"
    /\ Locals
    /\ ringCounter = 0
    /\ prev = NoPrev
    /\ PageIdle

NextExtend == Analyze \/ Extend

SpecExtend == InitExtend /\ [][NextExtend]_vars

-----------------------------------------------------------------------------
(* Batches at the edges of the detectors' windows and thresholds *)

W  == <<"W">>
U  == <<"U">>
H  == <<"H">>

\* Windows: W receives from L(1)..L(10) and U pays M(1)..M(10), with rows
\* exactly 72 hours apart, one millisecond more than that, and repeated
\* counterparties; the file is not in timestamp order.
WindowBlocks ==
    <<<<Tx(110, L(10), W, 10, 72 * HOUR)>>,
      [i \in 1..8 |-> Tx(100 + i, L(i), W, 10 + i, i * HOUR)],
      <<Tx(109, L(9), W, 10, 0)>>,
      <<Tx(111, L(10), W, 10, 72 * HOUR + 1)>>,
      <<Tx(112, L(1), W, 10, 2 * HOUR)>>,
      <<Tx(210, U, M(10), 10, 73 * HOUR)>>,
      [i \in 1..9 |-> Tx(200 + i, U, M(i), 10 + i, i * HOUR)],
      <<Tx(211, U, M(10), 10, 73 * HOUR + 1)>>,
      <<Tx(113, L(11), W, 10, 80 * HOUR)>>>>

NumWindows == 8

\* Velocity: H pays V nineteen times within nineteen minutes, and again
\* exactly 24 hours after the first of them, one millisecond later than that,
\* and half an hour after it.
VelocityBlocks ==
    <<<<Tx(320, H, V, 10, 24 * HOUR + 60 * 1000)>>,
      <<Tx(321, H, V, 10, 24 * HOUR + 60 * 1000 + 1)>>,
      Burst(300, H, V, VELOCITY_MIN_TX - 1, 10),
      <<Tx(322, H, X, 10, 30 * 60 * 1000)>>,
      <<Tx(323, H, V, 10, 0)>>>>

NumVelocity == 4

\* Chains: the path A B C D E F, whose inner accounts have two rows each,
\* and edges that skip one or two accounts of it.
ChainBlocks ==
    <<Transfer(41, A, B), Transfer(42, B, C), Transfer(43, C, D), Transfer(44, A, C),
      Transfer(45, D, E), Transfer(46, E, F), Transfer(47, B, D)>>

NumChains == 6

G == <<"G">>
J == <<"J">>

\* s pays M(from) .. M(to) the same amount, one payment an hour
Payments(k, s, from, to, amount) ==
    [i \in 1..(to - from + 1) |->
        Tx(k + from + i - 1, s, M(from + i - 1), amount, (from + i - 1) * HOUR)]

\* Payrolls: J pays 13 fourteen times, 14 twice and 15 twice, which are 18
\* amounts of mean 40/3 and standard deviation 2/3; G pays 19 five times and
\* 21 five times, of mean 20 and standard deviation 1; then an eleventh
\* payment of G, a payment of G long after the others, and more of J.
PayrollBlocks ==
    <<Payments(700, J, 1, 14, 13), Payments(700, J, 15, 16, 14),
      Payments(700, J, 17, 18, 15),
      Payments(750, G, 1, 5, 19), Payments(750, G, 6, 10, 21),
      <<Tx(770, G, M(11), 20, 11 * HOUR)>>,
      <<Tx(771, G, M(1), 60, 200 * HOUR)>>,
      Payments(700, J, 19, 20, 13)>>

NumPayrolls == 7

K == <<"K">>

\* s pays M(from) .. M(to) the same amount, one payment every twenty minutes
Quick(k, s, from, to, amount) ==
    [i \in 1..(to - from + 1) |->
        Tx(k + from + i - 1, s, M(from + i - 1), amount, (from + i - 1) * 20 * 60 * 1000)]

\* Scenarios: K pays 25 receivers within 8 hours 20 minutes: 21 twice, 24
\* twenty-one times and 27 twice (mean 24, standard deviation 6/5), or 40
\* instead of 27, or 24 throughout.
ScenarioBlocks ==
    <<Quick(800, K, 1, 2, 21), Quick(800, K, 3, 23, 24), Quick(800, K, 24, 25, 27),
      Quick(830, K, 24, 25, 40), Quick(860, K, 1, 2, 24), Quick(890, K, 24, 25, 24),
      <<Tx(899, K, V, 24, 0)>>>>

NumScenarios == 6

\* Ledgers: rows between A, B and C with a self-loop, the same row twice, one
\* transaction id on two different rows, repeated pairs, and timestamps that
\* run against the file order.
LedgerBlocks ==
    <<<<Tx(51, B, A, 10, 5 * HOUR)>>,
      <<Tx(52, A, A, 20, HOUR)>>,
      <<Tx(51, A, B, 30, 3 * HOUR)>>,
      <<Tx(52, A, A, 20, HOUR)>>,
      <<Tx(53, B, A, 10, 0)>>,
      <<Tx(54, C, B, 15, 2 * HOUR), Tx(55, C, C, 5, 2 * HOUR)>>,
      <<Tx(56, A, C, 10, 4 * HOUR)>>>>

NumLedgers == 6

N(k) == <<"N">> \o NumToString(k)

\* Routes: the path N0 N1 .. N9, one row an hour, then a self-loop at its
\* end, a row that closes the cycle N1 N2 N3 N4, and a self-loop at N1, which
\* gives N1 four transactions.
RouteBlocks ==
    <<[k \in 1..9 |-> Tx(60 + k, N(k - 1), N(k), 10, k * HOUR)],
      <<Tx(70, N(9), N(9), 10, 10 * HOUR)>>,
      <<Tx(71, N(4), N(1), 10, 11 * HOUR)>>,
      <<Tx(72, N(1), N(1), 10, 12 * HOUR)>>,
      <<Tx(73, N(3), N(0), 10, 13 * HOUR)>>>>

NumRoutes == 4

InitDetectors ==
    /\ transactions \in Batches(WindowBlocks, NumWindows)
                        \cup Batches(VelocityBlocks, NumVelocity)
                        \cup Batches(ChainBlocks, NumChains)
                        \cup Batches(PayrollBlocks, NumPayrolls)
                        \cup Batches(ScenarioBlocks, NumScenarios)
                        \cup Batches(LedgerBlocks, NumLedgers)
                        \cup Batches(RouteBlocks, NumRoutes)
    /\ pc = "input"
    /\ Locals
    /\ ringCounter = 0
    /\ prev = NoPrev
    /\ PageIdle

NextDetectors == Analyze

SpecDetectors == InitDetectors /\ [][NextDetectors]_vars

-----------------------------------------------------------------------------
(* The four detectors run in any order on the graph of one batch *)

Detectors == {"detectCycles", "detectSmurfing", "detectShellChains", "detectHighVelocity"}

\* the detector d has returned
Returned(d) ==
    /\ ran' = ran \cup {d}
    /\ pc' = IF ran' = Detectors THEN "velocity" ELSE "graph"

RunCycles ==
    /\ pc = "graph" /\ "detectCycles" \notin ran
    /\ LET r == detectCycles(adjacency, nodeIds)
       IN  /\ cycles' = r.cycles
           /\ maxPath' = r.maxPath
           /\ cycleNodes' = BuildCycleNodes(<< >>, r.cycles)
    /\ Returned("detectCycles")
    /\ UNCHANGED <<transactions, nodeIds, nodes, edges, adjacency, reverseAdj,
                   fanInAccounts, fanOutAccounts, shellAccounts, highVelocity,
                   fraudRings, ringCounter, report, prev, shellTrace, page>>

RunSmurfing ==
    /\ pc = "graph" /\ "detectSmurfing" \notin ran
    /\ LET r == detectSmurfing(edges)
       IN  /\ fanInAccounts' = r.fanInAccounts
           /\ fanOutAccounts' = r.fanOutAccounts
    /\ edges' = EdgesAfterSmurfing(edges)
    /\ Returned("detectSmurfing")
    /\ UNCHANGED <<transactions, nodeIds, nodes, adjacency, reverseAdj,
                   cycles, maxPath, cycleNodes, shellAccounts, highVelocity,
                   fraudRings, ringCounter, report, prev, shellTrace, page>>

RunShellChains ==
    /\ pc = "graph" /\ "detectShellChains" \notin ran
    /\ shellAccounts' = detectShellChains(nodes, nodeIds, adjacency)
    /\ shellTrace' = ShellTraces(nodes, nodeIds, adjacency)
    /\ Returned("detectShellChains")
    /\ UNCHANGED <<transactions, nodeIds, nodes, edges, adjacency, reverseAdj,
                   cycles, maxPath, cycleNodes, fanInAccounts, fanOutAccounts,
                   highVelocity, fraudRings, ringCounter, report, prev, page>>

RunHighVelocity ==
    /\ pc = "graph" /\ "detectHighVelocity" \notin ran
    /\ highVelocity' = detectHighVelocity(edges)
    /\ edges' = EdgesAfterVelocity(edges)
    /\ Returned("detectHighVelocity")
    /\ UNCHANGED <<transactions, nodeIds, nodes, adjacency, reverseAdj,
                   cycles, maxPath, cycleNodes, fanInAccounts, fanOutAccounts,
                   shellAccounts, fraudRings, ringCounter, report, prev, shellTrace, page>>

InitOrder ==
    /\ transactions \in Batches(WindowBlocks, NumWindows)
                        \cup Batches(VelocityBlocks, NumVelocity)
                        \cup Batches(ChainBlocks, NumChains)
                        \cup Batches(LedgerBlocks, NumLedgers)
                        \cup Batches(RouteBlocks, NumRoutes)
    /\ pc = "input"
    /\ Locals
    /\ ringCounter = 0
    /\ prev = NoPrev
    /\ PageIdle

NextOrder ==
    \/ BuildGraph
    \/ RunCycles
    \/ RunSmurfing
    \/ RunShellChains
    \/ RunHighVelocity
    \/ ScoreAccounts
    \/ FilterFalsePositives
    \/ AssembleFraudRings
    \/ Return

SpecOrder == InitOrder /\ [][NextOrder]_vars

-----------------------------------------------------------------------------
(* The CSV boundary (src/src/lib/csvParser.ts) *)

REQUIRED_COLUMNS == <<"transaction_id", "sender_id", "receiver_id", "amount", "timestamp">>

IsSpace(c) == c \in {" ", "\t"}

RECURSIVE TrimStart(_)
TrimStart(s) == IF s # << >> /\ IsSpace(Head(s)) THEN TrimStart(Tail(s)) ELSE s

RECURSIVE TrimEnd(_)
TrimEnd(s) ==
    IF s # << >> /\ IsSpace(s[Len(s)]) THEN TrimEnd(SubSeq(s, 1, Len(s) - 1)) ELSE s

\* String.prototype.trim
Trim(s) == TrimEnd(TrimStart(s))

\* \d
IsDigit(c) == c \in {"0", "1", "2", "3", "4", "5", "6", "7", "8", "9"}

DigitValue(c) == CodeUnit(c) - 1

\* the number of digits s begins with
RECURSIVE DigitRun(_)
DigitRun(s) == IF s # << >> /\ IsDigit(Head(s)) THEN 1 + DigitRun(Tail(s)) ELSE 0

\* the value of a string of digits
RECURSIVE DigitsValue(_, _)
DigitsValue(acc, s) ==
    IF s = << >> THEN acc ELSE DigitsValue(10 * acc + DigitValue(Head(s)), Tail(s))

RECURSIVE Pow10(_)
Pow10(n) == IF n = 0 THEN 1 ELSE 10 * Pow10(n - 1)

INFINITY == <<"I", "n", "f", "i", "n", "i", "t", "y">>

NaN == [nan |-> TRUE, infinite |-> FALSE, neg |-> FALSE, digits |-> 0, scale |-> 0]

\* parseFloat reads the longest prefix that is a decimal literal and ignores
\* what follows it; rest is what follows, value the number read
ParsePrefix(rest, value) == value

\* the exponent part, if s3 begins with one: e or E, a sign or none, digits.
\* digits holds the digits of the integer and the fraction part, nf counts
\* those of the fraction
ParseExponent(neg, digits, nf, s3) ==
    LET s4 == IF s3 # << >> /\ Head(s3) \in {"e", "E"} THEN Tail(s3) ELSE << >>
        s5 == IF s4 # << >> /\ Head(s4) \in {"+", "-"} THEN Tail(s4) ELSE s4
        ne == DigitRun(s5)
    IN  IF ne = 0
        THEN ParsePrefix(s3, [nan |-> FALSE, infinite |-> FALSE, neg |-> neg,
                              digits |-> DigitsValue(0, digits), scale |-> -nf])
        ELSE ParsePrefix(SubSeq(s5, ne + 1, Len(s5)),
                 [nan |-> FALSE, infinite |-> FALSE, neg |-> neg,
                  digits |-> DigitsValue(0, digits),
                  scale |-> (IF Head(s4) = "-" THEN -1 ELSE 1)
                                * DigitsValue(0, SubSeq(s5, 1, ne)) - nf])

\* the digits after a point that follows the first ni characters of s1
FractionRun(s1, ni) ==
    IF ni < Len(s1) /\ s1[ni + 1] = "." THEN DigitRun(SubSeq(s1, ni + 2, Len(s1))) ELSE 0

\* Infinity, or digits, a point and digits, of which one run of digits may be
\* missing; s1 begins with ni digits, nf digits follow the point
ParseMantissa(neg, s1, ni, nf) ==
    IF StartsWith(s1, INFINITY)
    THEN ParsePrefix(SubSeq(s1, Len(INFINITY) + 1, Len(s1)),
             [nan |-> FALSE, infinite |-> TRUE, neg |-> neg, digits |-> 0, scale |-> 0])
    ELSE IF ni = 0 /\ nf = 0 THEN NaN
    ELSE IF ni < Len(s1) /\ s1[ni + 1] = "."
    THEN ParseExponent(neg, SubSeq(s1, 1, ni) \o SubSeq(s1, ni + 2, ni + 1 + nf), nf,
                       SubSeq(s1, ni + 2 + nf, Len(s1)))
    ELSE ParseExponent(neg, SubSeq(s1, 1, ni), 0, SubSeq(s1, ni + 1, Len(s1)))

\* a sign or none
ParseSigned(s0) ==
    IF s0 # << >> /\ Head(s0) \in {"+", "-"}
    THEN ParseMantissa(Head(s0) = "-", Tail(s0), DigitRun(Tail(s0)),
                       FractionRun(Tail(s0), DigitRun(Tail(s0))))
    ELSE ParseMantissa(FALSE, s0, DigitRun(s0), FractionRun(s0, DigitRun(s0)))

\* parseFloat(str): the number is digits * 10^scale, negated if neg
ParseFloat(str) == ParseSigned(TrimStart(str))

\* isNaN(amount) || amount <= 0
NotPositive(v) == v.nan \/ v.neg \/ (~v.infinite /\ v.digits = 0)

\* the number as the engine holds it.  The engine model keeps amounts as whole
\* numbers, and the files below have no amount with a fraction left.
NumberOf(v) ==
    (IF v.neg THEN -1 ELSE 1)
        * (IF v.scale >= 0 THEN v.digits * Pow10(v.scale) ELSE v.digits \div Pow10(-v.scale))

\* /^\d{4}-\d{2}-\d{2} \d{2}:\d{2}:\d{2}$/
TIMESTAMP_REGEX(s) ==
    /\ Len(s) = 19
    /\ \A i \in 1..19 :
          IF i \in {5, 8} THEN s[i] = "-"
          ELSE IF i = 11 THEN s[i] = " "
          ELSE IF i \in {14, 17} THEN s[i] = ":"
          ELSE IsDigit(s[i])

\* days from 1970-01-01 to the day d of month m of year y; a day past the end
\* of its month counts on into the next
DaysFromCivil(y, m, d) ==
    LET yy == IF m <= 2 THEN y - 1 ELSE y
        era == yy \div 400
        yoe == yy - era * 400
        doy == (153 * (IF m > 2 THEN m - 3 ELSE m + 9) + 2) \div 5 + d - 1
        doe == yoe * 365 + yoe \div 4 - yoe \div 100 + doy
    IN  era * 146097 + doe - 719468

DaysInMonth(y, m) ==
    IF m = 2 THEN (IF y % 4 = 0 /\ (y % 100 # 0 \/ y % 400 = 0) THEN 29 ELSE 28)
    ELSE IF m \in {4, 6, 9, 11} THEN 30 ELSE 31

\* Times are counted in milliseconds from the start of this day and not from
\* 1970-01-01, to stay within 32 bits: the engine uses timestamps only through
\* their order and their differences.
BASE_DAY == DaysFromCivil(2024, 2, 20)

\* new Date(<date>T<time>Z).getTime() for a string of the form above.  The
\* date-time format has months 01-12, days 01-31, hours 00-24 (24 only as
\* 24:00:00), minutes and seconds 00-59.  A day of 29 to 31 past the end of its
\* month is no date by the language standard, and engines differ on it: rolls
\* tells whether this one counts it on into the next month.
DateParse(s, rolls) ==
    LET y == DigitsValue(0, SubSeq(s, 1, 4))
        mo == DigitsValue(0, SubSeq(s, 6, 7))
        d == DigitsValue(0, SubSeq(s, 9, 10))
        h == DigitsValue(0, SubSeq(s, 12, 13))
        mi == DigitsValue(0, SubSeq(s, 15, 16))
        sec == DigitsValue(0, SubSeq(s, 18, 19))
        valid == /\ mo \in 1..12 /\ d \in 1..31
                 /\ (h \in 0..23 \/ (h = 24 /\ mi = 0 /\ sec = 0))
                 /\ mi \in 0..59 /\ sec \in 0..59
                 /\ (d <= DaysInMonth(y, mo) \/ rolls)
    IN  IF ~valid THEN Null
        ELSE <<((DaysFromCivil(y, mo, d) - BASE_DAY) * 24 + h) * HOUR + mi * 60000 + sec * 1000>>

parseTimestamp(ts, rolls) ==
    IF ~TIMESTAMP_REGEX(Trim(ts)) THEN Null ELSE DateParse(Trim(ts), rolls)

\* String(row.x ?? ''): a row Papa delivers has no entry for a column the line
\* was too short for
Cell(row, column) == IF row[column] = Undefined THEN << >> ELSE row[column]

\* a variant that takes every amount
AnyAmount(amountStr) == FALSE

\* isNaN(amount) || amount <= 0, amount = parseFloat(amountStr)
BadAmount(amountStr) == NotPositive(ParseFloat(amountStr))

\* the error the row adds to errors, or Null
RowError(row, rowNum, rolls) ==
    IF Trim(Cell(row, "transaction_id")) = << >>
    THEN <<[row |-> rowNum, field |-> "transaction_id"]>>
    ELSE IF Trim(Cell(row, "sender_id")) = << >>
    THEN <<[row |-> rowNum, field |-> "sender_id"]>>
    ELSE IF Trim(Cell(row, "receiver_id")) = << >>
    THEN <<[row |-> rowNum, field |-> "receiver_id"]>>
    ELSE IF BadAmount(Trim(Cell(row, "amount")))
    THEN <<[row |-> rowNum, field |-> "amount"]>>
    ELSE IF parseTimestamp(Trim(Cell(row, "timestamp")), rolls) = Null
    THEN <<[row |-> rowNum, field |-> "timestamp"]>>
    ELSE Null

\* the transaction pushed for a row without error
RowTransaction(row, rolls) ==
    [transaction_id |-> Trim(Cell(row, "transaction_id")),
     sender_id |-> Trim(Cell(row, "sender_id")),
     receiver_id |-> Trim(Cell(row, "receiver_id")),
     amount |-> NumberOf(ParseFloat(Trim(Cell(row, "amount")))),
     timestamp |-> Trim(Cell(row, "timestamp")),
     timestampMs |-> parseTimestamp(Trim(Cell(row, "timestamp")), rolls)[1]]

\* the forEach over result.data, from row n on
RECURSIVE ValidateRows(_, _, _, _)
ValidateRows(acc, data, n, rolls) ==
    IF n > Len(data) \/ ~Forced(acc) THEN acc
    ELSE LET error == RowError(data[n], n + 1, rolls)
         IN  ValidateRows(IF error # Null
                          THEN [acc EXCEPT !.errors = @ \o error]
                          ELSE [acc EXCEPT !.transactions =
                                               Append(@, RowTransaction(data[n], rolls))],
                          data, n + 1, rolls)

\* errors.length > 20
TOO_MANY_ERRORS == 20

\* transactions: [] in the results that report errors
NoTransactions(txs) == << >>

\* what parseCSV resolves to after the forEach; rows is result.data.length
Resolved(checked, rows) ==
    IF Len(checked.errors) > TOO_MANY_ERRORS
    THEN [success |-> FALSE, transactions |-> NoTransactions(checked.transactions),
          errors |-> Append(SubSeq(checked.errors, 1, 10), [row |-> 0, field |-> "more"]),
          rowCount |-> rows]
    ELSE IF Len(checked.errors) > 0
    THEN [success |-> FALSE, transactions |-> NoTransactions(checked.transactions),
          errors |-> checked.errors, rowCount |-> rows]
    ELSE [success |-> TRUE, transactions |-> checked.transactions,
          errors |-> << >>, rowCount |-> Len(checked.transactions)]

\* what parseCSV resolves to.  file.unreadable: Papa calls error and not
\* complete; file.fields and file.data are result.meta.fields and result.data
parseCSV(file, rolls) ==
    IF file.unreadable
    THEN [success |-> FALSE, transactions |-> << >>,
          errors |-> <<[row |-> 0, field |-> "file"]>>, rowCount |-> 0]
    ELSE IF \E n \in 1..Len(REQUIRED_COLUMNS) : ~Includes(file.fields, REQUIRED_COLUMNS[n])
    THEN [success |-> FALSE, transactions |-> << >>,
          errors |-> <<[row |-> 0, field |-> "columns"]>>, rowCount |-> 0]
    ELSE Resolved(ValidateRows([errors |-> << >>, transactions |-> << >>],
                               file.data, 1, rolls),
                  Len(file.data))

-----------------------------------------------------------------------------
(* Files dropped on the page *)

\* "2024-02-dd hh:00:00"
Stamp(day, hour) ==
    <<"2", "0", "2", "4", "-", "0", "2", "-">> \o PadStart(NumToString(day), 2, "0")
        \o <<" ">> \o PadStart(NumToString(hour), 2, "0") \o <<":", "0", "0", ":", "0", "0">>

\* one line of a file as Papa delivers it: a string per column, Undefined for
\* a column the line has no field for
Line(id, s, r, a, t) ==
    [transaction_id |-> id, sender_id |-> s, receiver_id |-> r, amount |-> a, timestamp |-> t]

\* lines the parser takes: plain; with blanks around the fields and letters
\* after the amount; with an exponent and a time before the one above; with a
\* sign, a fraction of zero and the hour 24
GoodLines ==
    << <<Line(<<"T", "1">>, A, B, <<"1", "0">>, Stamp(20, 1))>>,
       <<Line(<<" ", "T", "2", " ">>, B \o <<" ">>, <<"\t">> \o C,
              <<"1", "2", "a", "b", "c">>, <<" ">> \o Stamp(21, 3) \o <<" ">>)>>,
       <<Line(<<"T", "3">>, C, A, <<"2", "e", "1">>, Stamp(19, 23))>>,
       <<Line(<<"T", "4">>, A, C, <<"+", "5", ".", "0">>, Stamp(21, 24))>> >>

NumGood == 3

\* lines with something wrong, one thing each; the last but two is a date only
\* for some engines
OddLines ==
    << Line(<<" ", " ">>, A, B, <<"1", "0">>, Stamp(20, 1)),
       Line(<<"T", "5">>, Undefined, B, <<"1", "0">>, Stamp(20, 1)),
       Line(<<"T", "5">>, A, << >>, <<"1", "0">>, Stamp(20, 1)),
       Line(<<"T", "5">>, A, B, <<"0", ".", "0">>, Stamp(20, 1)),
       Line(<<"T", "5">>, A, B, <<"-", "5">>, Stamp(20, 1)),
       Line(<<"T", "5">>, A, B, <<"a", "b", "c">>, Stamp(20, 1)),
       Line(<<"T", "5">>, A, B, Undefined, Stamp(20, 1)),
       Line(<<"T", "5">>, A, B, <<"1", "0">>,
            <<"2", "0", "2", "4", "-", "0", "2", "-", "2", "0", "T",
              "0", "1", ":", "0", "0", ":", "0", "0">>),
       Line(<<"T", "5">>, A, B, <<"1", "0">>,
            <<"2", "0", "2", "4", "-", "1", "3", "-", "0", "1", " ",
              "0", "0", ":", "0", "0", ":", "0", "0">>),
       Line(<<"T", "5">>, A, B, <<"1", "0">>, Stamp(30, 0)),
       Line(<<"T", "5">>, A, B, <<"1", "0">>, Stamp(20, 25)),
       Line(<<"T", "5">>, A, B, <<"-", "I", "n", "f", "i", "n", "i", "t", "y">>, Stamp(20, 1)) >>

NumOdd == 10

\* lines with the line odd put in after the first p of them
WithLine(lines, odd, p) == SubSeq(lines, 1, p) \o <<odd>> \o SubSeq(lines, p + 1, Len(lines))

\* the lines of a file: some good lines, and at most one odd line among them
Lines ==
    Batches(GoodLines, NumGood)
        \cup UNION {{WithLine(lines, OddLines[k], p) : p \in 0..Len(lines)} :
                        lines \in Batches(GoodLines, NumGood), k \in 1..Min(NumOdd, Len(OddLines))}

A_CSV == <<"a", ".", "c", "s", "v">>
B_CSV == <<"b", ".", "c", "s", "v">>

\* a File, with what Papa makes of it
File(name, fields, data) ==
    [name |-> name, fields |-> fields, data |-> data, unreadable |-> FALSE]

TwoLines == GoodLines[1] \o GoodLines[2]

\* files that differ from the above in name, in header or in that they cannot
\* be read
OtherFiles ==
    {File(<<"a", ".", "t", "x", "t">>, REQUIRED_COLUMNS, TwoLines),
     File(<<"a", ".", "C", "S", "V">>, REQUIRED_COLUMNS, TwoLines),
     File(<<"c", "s", "v">>, REQUIRED_COLUMNS, TwoLines),
     File(A_CSV, <<"memo", "timestamp", "amount", "receiver_id", "sender_id",
                   "transaction_id">>, TwoLines),
     File(A_CSV, <<"transaction_id", "sender_id", "receiver_id", "timestamp">>, TwoLines),
     File(A_CSV, << >>, << >>),
     [File(A_CSV, REQUIRED_COLUMNS, TwoLines) EXCEPT !.unreadable = TRUE]}

\* the file dropped first, and the one dropped second
UploadMenus ==
    << {File(A_CSV, REQUIRED_COLUMNS, data) : data \in Lines} \cup OtherFiles,
       {File(B_CSV, REQUIRED_COLUMNS, GoodLines[2] \o GoodLines[3]),
        File(B_CSV, REQUIRED_COLUMNS, GoodLines[1] \o <<OddLines[4]>>),
        File(A_CSV, REQUIRED_COLUMNS, GoodLines[1])} >>

-----------------------------------------------------------------------------
(* The page: CSVUpload.processFile, Index.handleParsed and Index.reset *)

\* what the page steps leave alone: the locals of a call of analyzeTransactions
engine == <<transactions, pc, nodeIds, nodes, edges, adjacency, reverseAdj, cycles,
            maxPath, cycleNodes, fanInAccounts, fanOutAccounts, shellAccounts,
            highVelocity, fraudRings, report, prev, shellTrace, ran>>

\* String.prototype.endsWith
EndsWith(s, p) == Len(s) >= Len(p) /\ SubSeq(s, Len(s) - Len(p) + 1, Len(s)) = p

\* a run from the drop of a file on: parsing (awaiting parseCSV), wait30 and
\* wait20 (awaiting the timers of handleParsed), running (analyzeTransactions
\* is on the stack), and how it ended: refused (no .csv name), rejected
\* (parseCSV without success), returned, threw.  mounted: the CSVUpload whose
\* processFile this is is still on the page.  turn: the place of the run among
\* the calls of handleParsed.  value: what analyzeTransactions returned.
NewTask(file) ==
    [file |-> file, stage |-> "parsing", mounted |-> TRUE, parsed |-> Null,
     transactions |-> << >>, turn |-> 0, value |-> Null]

\* JavaScript runs one handler at a time: while analyzeTransactions is on the
\* stack (pc is not "idle") no other handler of the page runs
Idle == pc = "idle"

\* the calls of handleParsed so far
Handled == {i \in 1..Len(tasks) : tasks[i].turn > 0}

\* timers of one delay fire in the order in which they were set
FirstIn(stage) ==
    {i \in 1..Len(tasks) :
        /\ tasks[i].stage = stage
        /\ \A k \in 1..Len(tasks) : tasks[k].stage = stage => tasks[i].turn <= tasks[k].turn}

\* CSVUpload is rendered in the upload state only; what it held is gone when
\* it is taken off the page, and the set-state calls of its runs are lost
Unmounted(ts) == [i \in 1..Len(ts) |-> [ts[i] EXCEPT !.mounted = FALSE]]

\* handleDrop, handleChange: processFile(file) up to its await
Drop(file) ==
    /\ Idle
    /\ appState = "upload"
    /\ started < Len(UploadMenus)
    /\ file \in UploadMenus[started + 1]
    /\ started' = started + 1
    /\ IF ~EndsWith(file.name, <<".", "c", "s", "v">>)
       THEN /\ upload' = [upload EXCEPT !.errors = <<[row |-> 0, field |-> "name"]>>]
            /\ tasks' = Append(tasks, [NewTask(file) EXCEPT !.stage = "refused"])
       ELSE /\ upload' = [isLoading |-> TRUE, errors |-> << >>,
                          fileName |-> file.name, successInfo |-> Null]
            /\ tasks' = Append(tasks, NewTask(file))
    /\ UNCHANGED <<appState, result, fileName, processingError, progressMsg,
                   ringCounter, engine>>

\* if (!result.success) ... else { ...; onParsed(result.transactions, name) }
HandsOn(parsed) == parsed.success

\* processFile from the await of parseCSV on, with the part of handleParsed
\* before its first await when onParsed is called; parsed is what parseCSV
\* resolved to
Continue(i, parsed) ==
    IF HandsOn(parsed)
    THEN /\ fileName' = tasks[i].file.name
         /\ appState' = "processing"
         /\ progressMsg' = <<"Building transaction graph...">>
         /\ upload' = NoUpload
         /\ tasks' = Unmounted([tasks EXCEPT
                                   ![i].stage = "wait30",
                                   ![i].parsed = <<parsed>>,
                                   ![i].transactions = parsed.transactions,
                                   ![i].turn = Cardinality(Handled) + 1])
    ELSE /\ upload' = IF ~tasks[i].mounted THEN upload
                      ELSE IF ~parsed.success
                      THEN [upload EXCEPT !.isLoading = FALSE, !.errors = parsed.errors]
                      ELSE [upload EXCEPT !.isLoading = FALSE,
                                          !.successInfo = <<[rows |-> parsed.rowCount]>>]
         /\ tasks' = [tasks EXCEPT ![i].stage = "rejected", ![i].parsed = <<parsed>>]
         /\ UNCHANGED <<fileName, appState, progressMsg>>

Parsed(i) ==
    /\ Idle
    /\ i \in 1..Len(tasks)
    /\ tasks[i].stage = "parsing"
    /\ \E rolls \in BOOLEAN : Continue(i, parseCSV(tasks[i].file, rolls))
    /\ UNCHANGED <<result, processingError, started, ringCounter, engine>>

\* handleParsed from its first await to its second
Timer30(i) ==
    /\ Idle
    /\ i \in FirstIn("wait30")
    /\ progressMsg' = <<"Analyzing ">> \o NumToString(Len(tasks[i].transactions))
                          \o <<" transactions...">>
    /\ tasks' = [tasks EXCEPT ![i].stage = "wait20"]
    /\ UNCHANGED <<appState, result, fileName, processingError, upload, started,
                   ringCounter, engine>>

\* handleParsed from its second await to the call of analyzeTransactions,
\* which then runs step by step as above
Timer20(i) ==
    /\ Idle
    /\ i \in FirstIn("wait20")
    /\ transactions' = tasks[i].transactions
    /\ pc' = "input"
    /\ tasks' = [tasks EXCEPT ![i].stage = "running"]
    /\ UNCHANGED <<nodeIds, nodes, edges, adjacency, reverseAdj, cycles, maxPath,
                   cycleNodes, fanInAccounts, fanOutAccounts, shellAccounts, highVelocity,
                   fraudRings, report, prev, shellTrace, ran, ringCounter,
                   appState, result, fileName, processingError, progressMsg, upload, started>>

\* the locals of the call are gone when it ends
CallEnds ==
    /\ pc' = "idle"
    /\ transactions' = << >>
    /\ nodeIds' = << >> /\ nodes' = << >> /\ edges' = << >>
    /\ adjacency' = << >> /\ reverseAdj' = << >>
    /\ cycles' = << >> /\ maxPath' = 0 /\ cycleNodes' = << >>
    /\ fanInAccounts' = << >> /\ fanOutAccounts' = << >>
    /\ shellAccounts' = << >> /\ highVelocity' = << >>
    /\ fraudRings' = << >> /\ report' = << >>
    /\ shellTrace' = << >> /\ ran' = {}
    /\ UNCHANGED <<prev, ringCounter>>

\* the AnalysisResult returned (processing_time_seconds is left out)
AnalysisResult ==
    [suspicious_accounts |-> report.suspicious_accounts,
     fraud_rings |-> report.fraud_rings,
     summary |-> report.summary,
     nodes |-> nodes,
     edges |-> edges]

\* the running call
Running == {i \in 1..Len(tasks) : tasks[i].stage = "running"}

\* handleParsed after the call has returned
CallReturns ==
    /\ pc = "done"
    /\ \E i \in Running :
          tasks' = [tasks EXCEPT ![i].stage = "returned", ![i].value = <<AnalysisResult>>]
    /\ result' = <<AnalysisResult>>
    /\ appState' = "results"
    /\ CallEnds
    /\ UNCHANGED <<fileName, processingError, progressMsg, upload, started>>

\* what analyzeTransactions may throw: it has no throw of its own, and runs out
\* of memory or stack on a file large enough
Thrown == {[message |-> <<"Maximum call stack size exceeded">>], [message |-> Undefined]}

\* err?.message ?? 'Unknown error during analysis.'
MessageOf(err) ==
    IF err.message = Undefined THEN <<"Unknown error during analysis.">> ELSE err.message

\* handleParsed when the call throws, at whatever point
CallThrows ==
    /\ pc \notin {"idle", "done"}
    /\ \E i \in Running : tasks' = [tasks EXCEPT ![i].stage = "threw"]
    /\ \E err \in Thrown : processingError' = MessageOf(err)
    /\ appState' = "error"
    /\ CallEnds
    /\ UNCHANGED <<result, fileName, progressMsg, upload, started>>

\* reset, from the button of the results dashboard or of the error panel
Reset ==
    /\ Idle
    /\ (appState = "results" /\ result # Null) \/ appState = "error"
    /\ appState' = "upload"
    /\ result' = Null
    /\ processingError' = << >>
    /\ UNCHANGED <<fileName, progressMsg, upload, tasks, started, ringCounter, engine>>

InitPage ==
    /\ transactions = << >>
    /\ pc = "idle"
    /\ Locals
    /\ ringCounter = 0
    /\ prev = NoPrev
    /\ PageIdle

NextPage ==
    \/ \E file \in UNION Range(UploadMenus) : Drop(file)
    \/ \E i \in 1..Len(tasks) : Parsed(i)
    \/ \E i \in 1..Len(tasks) : Timer30(i)
    \/ \E i \in 1..Len(tasks) : Timer20(i)
    \/ Analyze
    \/ CallReturns
    \/ CallThrows
    \/ Reset

SpecPage == InitPage /\ [][NextPage]_vars

-----------------------------------------------------------------------------
(* Properties *)

AfterCycles == pc \notin {"input", "graph"}
Emitted     == pc = "done"

NoDuplicates(s) == \A i, j \in 1..Len(s) : s[i] = s[j] => i = j

Members(i) == Range(fraudRings[i].member_accounts)

RingsOf(id) == {i \in 1..Len(fraudRings) : id \in Members(i)}

\* a sends to b in the graph with forward adjacency adj
SendsIn(adj, a, b) == a \in DOMAIN adj /\ Includes(adj[a], b)

Sends(a, b) == SendsIn(adjacency, a, b)

\* the simple directed paths one node longer than those of ps
Longer(adj, ps) ==
    UNION {{Append(p, m) : m \in {x \in Range(GetOr(adj, p[Len(p)])) : x \notin Range(p)}}
              : p \in ps}

Closed(adj, ps) == {p \in ps : SendsIn(adj, p[Len(p)], p[1])}

\* the simple directed cycles of n nodes, each from every one of its nodes
CyclesOfLength(adj, n) ==
    LET paths[k \in 1..n] ==
            IF k = 1 THEN {<<a>> : a \in DOMAIN adj} ELSE Longer(adj, paths[k - 1])
    IN  Closed(adj, paths[n])

\* the simple directed cycles of length 3 to 5
SimpleCyclesIn(adj) ==
    CyclesOfLength(adj, 3) \cup CyclesOfLength(adj, 4) \cup CyclesOfLength(adj, 5)

SimpleCycles == SimpleCyclesIn(adjacency)

\* C1: after assembleFraudRings no account is a member of more than one ring
\* of fraud_rings, nor listed twice within one ring.
C1_OneRingPerAccount ==
    pc \in {"assembled", "done"} =>
        /\ \A i, j \in 1..Len(fraudRings) : i # j => Members(i) \cap Members(j) = {}
        /\ \A i \in 1..Len(fraudRings) : NoDuplicates(fraudRings[i].member_accounts)

\* the outbound amounts of a sender, in file order
AmountsOf(id) ==
    LET sent == SelectSeq(transactions, LAMBDA tx : tx.sender_id = id)
    IN  [i \in 1..Len(sent) |-> sent[i].amount]

\* only the fan-out detector hit the account
OnlyFanOut(id) ==
    /\ Includes(fanOutAccounts, id)
    /\ ~Includes(fanInAccounts, id)
    /\ ~Includes(shellAccounts, id)
    /\ ~Includes(highVelocity, id)
    /\ id \notin DOMAIN cycleNodes

Listed(id) ==
    \E i \in 1..Len(report.suspicious_accounts) :
        report.suspicious_accounts[i].account_id = id

\* C2: a sender whose only detector hit is fan-out and whose outbound amounts
\* satisfy the payroll predicate ends the analysis unflagged, with score 0 and
\* no tags, absent from suspicious_accounts, a member of no ring and without
\* a ring id.
C2_PayrollSenderClean ==
    Emitted =>
        \A id \in DOMAIN nodes :
            OnlyFanOut(id) /\ IsPayroll(AmountsOf(id)) =>
                /\ ~nodes[id].isSuspicious
                /\ nodes[id].suspicionScore = 0
                /\ nodes[id].detectedPatterns = << >>
                /\ ~Listed(id)
                /\ RingsOf(id) = {}
                /\ nodes[id].ringId = Undefined

\* C3: in the emitted report every node is suspicious exactly when its score
\* is positive, and its score is positive exactly when it carries a tag.
C3_FlagScoreTags ==
    Emitted =>
        \A id \in DOMAIN nodes :
            /\ nodes[id].isSuspicious <=> nodes[id].suspicionScore > 0
            /\ nodes[id].suspicionScore > 0 <=> nodes[id].detectedPatterns # << >>

\* a payroll sender that lost its fan_out tag and keeps another one
C3_Witness ==
    /\ Emitted
    /\ \E id \in DOMAIN nodes :
          /\ Includes(fanOutAccounts, id)
          /\ ~Includes(nodes[id].detectedPatterns, FAN_OUT)
          /\ nodes[id].detectedPatterns # << >>
    /\ \E id \in DOMAIN nodes :
          /\ Includes(fanOutAccounts, id)
          /\ nodes[id].detectedPatterns = << >>

\* the weight of a tag as the contract lists it
Weight(tag) ==
    IF tag = <<"f", "a", "n", "_", "i", "n">> THEN 25
    ELSE IF tag = <<"f", "a", "n", "_", "o", "u", "t">> THEN 25
    ELSE IF tag = <<"s", "h", "e", "l", "l", "_", "c", "h", "a", "i", "n">> THEN 20
    ELSE IF tag = <<"h", "i", "g", "h", "_", "v", "e", "l", "o", "c", "i", "t", "y">> THEN 10
    ELSE 40

TagSum(tags) == SumSeq([i \in 1..Len(tags) |-> Weight(tags[i])])

\* C4: in the emitted report every score lies in 0..100 and equals the sum of
\* the weights of the tags the account finally carries, capped at 100.
C4_ScoreIsCappedSum ==
    Emitted =>
        \A id \in DOMAIN nodes :
            /\ nodes[id].suspicionScore \in 0..100
            /\ nodes[id].suspicionScore = Min(100, TagSum(nodes[id].detectedPatterns))

\* one account over the cap and one payroll sender that kept a tag
C4_Witness ==
    /\ Emitted
    /\ \E id \in DOMAIN nodes :
          /\ TagSum(nodes[id].detectedPatterns) > 100
          /\ nodes[id].suspicionScore = 100
    /\ \E id \in DOMAIN nodes :
          /\ Includes(fanOutAccounts, id)
          /\ ~Includes(nodes[id].detectedPatterns, FAN_OUT)
          /\ nodes[id].suspicionScore > 0

\* C5: in the emitted report every ring id carried by a node, and by an entry
\* of suspicious_accounts, is the id of a ring of fraud_rings that lists the
\* account; the empty placeholder written by scoreAccounts is never carried.
C5_RingIdsResolve ==
    Emitted =>
        /\ \A id \in DOMAIN nodes :
              nodes[id].ringId # Undefined =>
                  /\ nodes[id].ringId # << >>
                  /\ \E i \in RingsOf(id) : fraudRings[i].ring_id = nodes[id].ringId
        /\ \A k \in 1..Len(report.suspicious_accounts) :
              LET entry == report.suspicious_accounts[k]
              IN  entry.ring_id # Undefined =>
                      \E i \in RingsOf(entry.account_id) :
                          report.fraud_rings[i].ring_id = entry.ring_id

\* cycle members whose placeholder was replaced, next to a fan-in ring member
C5_Witness ==
    /\ Emitted
    /\ \E id \in DOMAIN cycleNodes : cycleNodes[id].ringId = << >> /\ Listed(id)
    /\ \E i \in 1..Len(fraudRings) : fraudRings[i].pattern_type = "fan_in"
    /\ Len(fraudRings) >= 3

RECURSIVE DecimalValue(_)
DecimalValue(s) ==
    IF s = << >> THEN 0
    ELSE 10 * DecimalValue(SubSeq(s, 1, Len(s) - 1))
            + (CHOOSE d \in 0..9 : Digit(d) = s[Len(s)])

IsDigits(s) == \A i \in 1..Len(s) : \E d \in 0..9 : Digit(d) = s[i]

TypeRank(type) ==
    CASE type = "cycle" -> 1
      [] type = "fan_in" -> 2
      [] type = "fan_out" -> 3
      [] type = "shell_chain" -> 4

\* C6: the i-th ring of the report is named RING_ followed by i in decimal,
\* zero-padded to three digits, and the rings come in the order cycle, fan_in,
\* fan_out, shell_chain.
C6_RingIdsInOrder ==
    Emitted =>
        /\ \A i \in 1..Len(report.fraud_rings) :
              LET id == report.fraud_rings[i].ring_id
                  digits == SubSeq(id, 6, Len(id))
              IN  /\ SubSeq(id, 1, 5) = <<"R", "I", "N", "G", "_">>
                  /\ Len(digits) >= 3
                  /\ IsDigits(digits)
                  /\ DecimalValue(digits) = i
                  /\ Len(digits) > 3 => digits[1] # "0"
        /\ \A i, j \in 1..Len(report.fraud_rings) :
              i < j => TypeRank(report.fraud_rings[i].pattern_type)
                          <= TypeRank(report.fraud_rings[j].pattern_type)

\* a report with a ring of each of the four types
C6_Witness ==
    /\ Emitted
    /\ \A type \in {"cycle", "fan_in", "fan_out", "shell_chain"} :
          \E i \in 1..Len(report.fraud_rings) : report.fraud_rings[i].pattern_type = type

IsDirectedCycle(c) ==
    /\ Len(c) \in 3..5
    /\ NoDuplicates(c)
    /\ \A i \in 1..Len(c) : Sends(c[i], c[(i % Len(c)) + 1])

\* C9: every emitted cycle is a simple directed cycle of 3 to 5 nodes of the
\* batch, and every node set that carries such a cycle is the member set of
\* exactly one emitted cycle.
C9_SoundAndComplete ==
    pc = "cycles" =>
        /\ \A i \in 1..Len(cycles) : IsDirectedCycle(cycles[i])
        /\ \A members \in {Range(p) : p \in SimpleCycles} :
              Cardinality({i \in 1..Len(cycles) : Range(cycles[i]) = members}) = 1

HasCycleTagOf(id) ==
    \E i \in 1..Len(nodes[id].detectedPatterns) :
        SubSeq(nodes[id].detectedPatterns[i], 1, 5) = <<"c", "y", "c", "l", "e">>

\* C10: no emitted cycle has fewer than 3 or more than 5 members, the DFS path
\* never holds more than 5 nodes, and a batch without a simple directed cycle
\* of length 3 to 5 yields no cycle and no cycle_length tag.
C10_LengthThreeToFive ==
    AfterCycles =>
        /\ \A i \in 1..Len(cycles) : Len(cycles[i]) \in 3..5
        /\ maxPath <= 5
        /\ Emitted /\ SimpleCycles = {} =>
              /\ cycles = << >>
              /\ \A id \in DOMAIN nodes : ~HasCycleTagOf(id)

\* a two-cycle, a self-loop and a six-cycle in a batch with no shorter cycle
C10_Witness ==
    /\ Emitted
    /\ CyclesOfLength(adjacency, 1) # {}
    /\ CyclesOfLength(adjacency, 2) # {}
    /\ CyclesOfLength(adjacency, 6) # {}
    /\ SimpleCycles = {}
    /\ maxPath = 5
    /\ cycles = << >>

\* C7: two calls on the same transaction list return the same
\* suspicious_accounts, fraud_rings and summary counts, whatever was analysed
\* between them.
C7_SameInputSameReport ==
    Emitted /\ prev.valid /\ prev.transactions = transactions => report = prev.report

\* a repeat with rings to number, after a call on another input that left the
\* counter above zero
C7_Witness ==
    /\ Emitted
    /\ prev.valid
    /\ prev.transactions = transactions
    /\ prev.between
    /\ prev.entry > 0
    /\ Len(report.fraud_rings) >= 2

\* the account has `least` distinct counterparties within windowMs of some row of its own
ReachesSmurfing(txs, id, mine, theirs, least) ==
    \E i \in 1..Len(txs) :
        /\ txs[i][mine] = id
        /\ Cardinality({txs[j][theirs] :
                           j \in {j \in 1..Len(txs) :
                                     /\ txs[j][mine] = id
                                     /\ txs[j].timestampMs >= txs[i].timestampMs
                                     /\ txs[j].timestampMs - txs[i].timestampMs
                                           <= 72 * HOUR}}) >= least

\* the account sends `least` rows within 24 hours of some row it sends
ReachesVelocity(txs, id, least) ==
    \E i \in 1..Len(txs) :
        /\ txs[i].sender_id = id
        /\ Cardinality({j \in 1..Len(txs) :
                           /\ txs[j].sender_id = id
                           /\ txs[j].timestampMs >= txs[i].timestampMs
                           /\ txs[j].timestampMs - txs[i].timestampMs <= 24 * HOUR}) >= least

AmountsIn(txs, id) ==
    LET sent == SelectSeq(txs, LAMBDA tx : tx.sender_id = id)
    IN  [i \in 1..Len(sent) |-> sent[i].amount]

\* the added row closes no directed cycle of length 3 to 5
NoNewCycle == SimpleCyclesIn(adjacency) \subseteq SimpleCyclesIn(prev.adjacency)

\* the added row brings no account to a threshold it had not reached
NoNewThreshold ==
    \A id \in DOMAIN nodes :
        /\ ReachesSmurfing(transactions, id, "receiver_id", "sender_id", 10)
              => ReachesSmurfing(prev.transactions, id, "receiver_id", "sender_id", 10)
        /\ ReachesSmurfing(transactions, id, "sender_id", "receiver_id", 10)
              => ReachesSmurfing(prev.transactions, id, "sender_id", "receiver_id", 10)
        /\ ReachesVelocity(transactions, id, 20)
              => ReachesVelocity(prev.transactions, id, 20)

\* the added row puts no account newly on a shell chain
NoNewShell == Range(shellAccounts) \subseteq Range(prev.shellAccounts)

\* the added row ends no sender's payroll exemption
PayrollKept ==
    \A id \in DOMAIN prev.nodes :
        IsPayroll(AmountsIn(prev.transactions, id)) => IsPayroll(AmountsIn(transactions, id))

StillUnflagged ==
    \A id \in DOMAIN prev.nodes :
        ~prev.nodes[id].isSuspicious =>
            nodes[id].detectedPatterns = << >> /\ nodes[id].suspicionScore = 0

Extended ==
    /\ Emitted
    /\ prev.valid
    /\ Len(transactions) = Len(prev.transactions) + 1
    /\ SubSeq(transactions, 1, Len(prev.transactions)) = prev.transactions

AfterSmurfing == pc \notin {"input", "graph", "cycles"}

\* the rows of the batch in which id is the `mine` party
RowsOf(id, mine) == {i \in 1..Len(transactions) : transactions[i][mine] = id}

\* two rows of id at most windowMs apart, with `least` distinct counterparties
\* among the rows of id from the first to the second
HasWindow(id, mine, theirs, windowMs, least) ==
    \E i, j \in RowsOf(id, mine) :
        /\ transactions[i].timestampMs <= transactions[j].timestampMs
        /\ transactions[j].timestampMs - transactions[i].timestampMs <= windowMs
        /\ Cardinality({transactions[k][theirs] :
                           k \in {k \in RowsOf(id, mine) :
                                     /\ transactions[i].timestampMs <= transactions[k].timestampMs
                                     /\ transactions[k].timestampMs <= transactions[j].timestampMs}})
              >= least

\* C11: a receiver is in fanInAccounts exactly when two of its incoming rows
\* at most 72 hours apart enclose rows from at least 10 distinct senders, and
\* a sender is in fanOutAccounts exactly when two of its outgoing rows at most
\* 72 hours apart enclose rows to at least 10 distinct receivers.
C11_SmurfingIsWindowed ==
    AfterSmurfing =>
        \A id \in DOMAIN nodes :
            /\ Includes(fanInAccounts, id)
                  <=> HasWindow(id, "receiver_id", "sender_id", 259200000, 10)
            /\ Includes(fanOutAccounts, id)
                  <=> HasWindow(id, "sender_id", "receiver_id", 259200000, 10)

\* the distinct counterparties of id over the whole batch
Counterparties(id, mine, theirs) == {transactions[k][theirs] : k \in RowsOf(id, mine)}

Span(rows) ==
    LET times == {transactions[k].timestampMs : k \in rows}
    IN  (CHOOSE t \in times : \A u \in times : u <= t)
           - (CHOOSE t \in times : \A u \in times : t <= u)

\* a receiver flagged on exactly 10 senders spread over exactly 72 hours, next
\* to a sender with 10 receivers, 9 of them within 72 hours, that is not flagged
C11_Witness ==
    /\ AfterSmurfing
    /\ \E id \in DOMAIN nodes :
          /\ Includes(fanInAccounts, id)
          /\ Cardinality(Counterparties(id, "receiver_id", "sender_id")) = 10
          /\ Span(RowsOf(id, "receiver_id")) = 259200000
          /\ Cardinality(RowsOf(id, "receiver_id")) > 10
          /\ \E k \in RowsOf(id, "receiver_id") : k > 1 /\
                transactions[k].timestampMs < transactions[k - 1].timestampMs
    /\ \E id \in DOMAIN nodes :
          /\ ~Includes(fanOutAccounts, id)
          /\ Cardinality(Counterparties(id, "sender_id", "receiver_id")) = 10
          /\ Span(RowsOf(id, "sender_id")) = 259200001

\* the sender has `least` rows within windowMs of one another
\* (some `least` rows have maximum minus minimum at most windowMs exactly when
\* two rows at most windowMs apart have `least` rows from the one to the other)
HasBurst(id, windowMs, least) ==
    \E i, j \in RowsOf(id, "sender_id") :
        /\ transactions[i].timestampMs <= transactions[j].timestampMs
        /\ transactions[j].timestampMs - transactions[i].timestampMs <= windowMs
        /\ Cardinality({k \in RowsOf(id, "sender_id") :
                           /\ transactions[i].timestampMs <= transactions[k].timestampMs
                           /\ transactions[k].timestampMs <= transactions[j].timestampMs})
              >= least

\* C12: a sender is in highVelocity exactly when some 20 of its outgoing rows
\* lie within 24 hours of one another, whatever the order of the rows.
C12_VelocityIsWindowed ==
    pc \notin {"input", "graph", "cycles", "smurfing", "shell"} =>
        \A id \in DOMAIN nodes : Includes(highVelocity, id) <=> HasBurst(id, 86400000, 20)

\* a sender flagged on exactly 20 rows spread over exactly 24 hours, the
\* latest of them first in the file
C12_Witness ==
    /\ Emitted
    /\ \E id \in DOMAIN nodes :
          /\ Includes(highVelocity, id)
          /\ Cardinality(RowsOf(id, "sender_id")) = 20
          /\ Span(RowsOf(id, "sender_id")) = 86400000
          /\ \A k \in 2..Len(transactions) :
                transactions[k].timestampMs < transactions[1].timestampMs

\* a shell intermediate as the contract defines it
IsIntermediate(id) ==
    nodes[id].totalTransactions >= 2 /\ nodes[id].totalTransactions <= 3

\* the simple directed paths of n nodes whose nodes after the first are
\* intermediates
Layered(n) ==
    LET paths[k \in 1..n] ==
            IF k = 1 THEN {<<a>> : a \in DOMAIN adjacency}
            ELSE {p \in Longer(adjacency, paths[k - 1]) : IsIntermediate(p[k])}
    IN  paths[n]

\* the simple directed paths of k hops whose inner nodes are intermediates
ShellPaths(k) == Longer(adjacency, Layered(k))

\* C13: every node of a simple directed path of 3 to 5 hops whose inner nodes
\* all have 2 or 3 transactions is in shellAccounts.
C13_ShellChainsComplete ==
    pc \notin {"input", "graph", "cycles", "smurfing"} =>
        \A k \in 3..5 : \A p \in ShellPaths(k) : Range(p) \subseteq Range(shellAccounts)

\* a payroll sender flagged fan-out that also carries a cycle tag
PayrollInCycle(id) ==
    /\ IsPayroll(AmountsOf(id))
    /\ Includes(nodes[id].detectedPatterns, FAN_OUT)
    /\ HasCycleTagOf(id)

\* the step of analyzeTransactions that runs filterFalsePositives
FilterStep == pc = "scored" /\ pc' = "filtered"

\* the tags an account carries, in order, when only a cycle and fan-out hit it
TwoTags(id) ==
    /\ Len(nodes[id].detectedPatterns) = 2
    /\ SubSeq(nodes[id].detectedPatterns[1], 1, 5) = <<"c", "y", "c", "l", "e">>
    /\ nodes[id].detectedPatterns[2] = FAN_OUT

InCycleRing(id) ==
    /\ RingsOf(id) # {}
    /\ \A i \in RingsOf(id) : fraudRings[i].pattern_type = "cycle"
    /\ \E i \in RingsOf(id) : nodes[id].ringId = fraudRings[i].ring_id

\* C14: the filter leaves a payroll sender that is flagged fan-out and carries
\* a cycle tag as it was, and in the emitted report such a sender still has
\* both tags, its score (65 when these are its only tags) and the id of the
\* cycle ring that lists it.
C14_CycleOverridesPayroll ==
    /\ [][FilterStep =>
            \A id \in DOMAIN nodes : PayrollInCycle(id) => nodes'[id] = nodes[id]]_vars
    /\ [](Emitted =>
            \A id \in DOMAIN nodes :
                /\ IsPayroll(AmountsOf(id))
                /\ Includes(fanOutAccounts, id)
                /\ id \in DOMAIN cycleNodes
                => /\ PayrollInCycle(id)
                   /\ nodes[id].isSuspicious
                   /\ nodes[id].suspicionScore = Min(100, TagSum(nodes[id].detectedPatterns))
                   /\ TwoTags(id) => nodes[id].suspicionScore = 65
                   /\ InCycleRing(id)
                   /\ \E i \in 1..Len(report.suspicious_accounts) :
                         /\ report.suspicious_accounts[i].account_id = id
                         /\ report.suspicious_accounts[i].ring_id = nodes[id].ringId
                         /\ report.suspicious_accounts[i].detected_patterns
                               = nodes[id].detectedPatterns)

\* a payroll sender in a 3-cycle reported with the two tags and 65 points,
\* next to a payroll sender outside every cycle that lost its tag
C14_Witness ==
    /\ Emitted
    /\ \E id \in DOMAIN nodes :
          /\ IsPayroll(AmountsOf(id))
          /\ Includes(fanOutAccounts, id)
          /\ id \in DOMAIN cycleNodes
          /\ TwoTags(id)
          /\ nodes[id].suspicionScore = 65
    /\ \E id \in DOMAIN nodes :
          /\ IsPayroll(AmountsOf(id))
          /\ Includes(fanOutAccounts, id)
          /\ ~Includes(nodes[id].detectedPatterns, FAN_OUT)

\* 400 * n^2 * variance - n^2 * mean^2 for the n amounts: negative, zero or
\* positive as the population standard deviation / mean is below, equal to or
\* above 0.05
Spread(amounts) ==
    LET n == Len(amounts)
        sum == SumSeq(amounts)
        squares == SumSeq([i \in 1..n |-> amounts[i] * amounts[i]])
    IN  400 * (n * squares - sum * sum) - sum * sum

KeepsFanOut(id) ==
    /\ Includes(nodes[id].detectedPatterns, FAN_OUT)
    /\ nodes[id].suspicionScore = Min(100, TagSum(nodes[id].detectedPatterns))
    /\ nodes[id].suspicionScore >= 25

\* C15: a fan-out sender is reported without the fan_out tag only if it has
\* at least 10 outbound amounts in the batch and their standard deviation /
\* mean is strictly below 0.05; with 9 amounts, or with standard deviation /
\* mean exactly 0.05, it keeps the tag and the 25 points.
C15_PayrollIsStrict ==
    Emitted =>
        \A id \in Range(fanOutAccounts) :
            /\ ~Includes(nodes[id].detectedPatterns, FAN_OUT) =>
                  Len(AmountsOf(id)) >= 10 /\ Spread(AmountsOf(id)) < 0
            /\ Len(AmountsOf(id)) = 9 \/ Spread(AmountsOf(id)) = 0 => KeepsFanOut(id)

Assembled == pc \in {"assembled", "done"}

\* the rings of one pattern type
RingsOfType(type) == {i \in 1..Len(fraudRings) : fraudRings[i].pattern_type = type}

\* the members of the rings of one pattern type
MembersOfType(type) == UNION {Members(i) : i \in RingsOfType(type)}

\* the accounts of the emitted cycles
InSomeCycle == UNION {Range(cycles[i]) : i \in 1..Len(cycles)}

\* at most one ring of the type, none when there is no candidate, and
\* otherwise one whose members are the candidates
OneRingOf(type, candidates) ==
    /\ Cardinality(RingsOfType(type)) = IF candidates = {} THEN 0 ELSE 1
    /\ MembersOfType(type) = candidates

\* C16: there is at most one ring of each of the types fan_in, fan_out and
\* shell_chain; the fan_in ring holds the fan-in accounts in no cycle, the
\* fan_out ring the fan-out accounts in no cycle and not in the fan_in ring,
\* the shell_chain ring the shell accounts in none of the rings before it; a
\* type without candidates has no ring, and no ring is empty.
C16_PatternRingMembers ==
    Assembled =>
        /\ OneRingOf("fan_in", Range(fanInAccounts) \ InSomeCycle)
        /\ OneRingOf("fan_out",
                     (Range(fanOutAccounts) \ InSomeCycle) \ MembersOfType("fan_in"))
        /\ OneRingOf("shell_chain",
                     Range(shellAccounts) \ (MembersOfType("cycle") \cup MembersOfType("fan_in")
                                                \cup MembersOfType("fan_out")))
        /\ \A i \in 1..Len(fraudRings) : fraudRings[i].member_accounts # << >>

\* rings of the three types, with shell accounts left out of the shell ring
\* because of the fan_in ring and of the fan_out ring, and a fan-out account
\* left out of the fan_out ring because of the fan_in ring
C16_Witness ==
    /\ Assembled
    /\ \A type \in {"fan_in", "fan_out", "shell_chain"} : RingsOfType(type) # {}
    /\ Range(shellAccounts) \cap MembersOfType("fan_in") # {}
    /\ Range(shellAccounts) \cap MembersOfType("fan_out") # {}
    /\ Range(fanInAccounts) \cap Range(fanOutAccounts) # {}

\* C17: any two emitted cycles that share an account have all their members
\* in one and the same cycle ring.
C17_OverlappingCyclesShareRing ==
    Assembled =>
        \A i, j \in 1..Len(cycles) :
            Range(cycles[i]) \cap Range(cycles[j]) # {} =>
                \E k \in RingsOfType("cycle") :
                    Range(cycles[i]) \cup Range(cycles[j]) \subseteq Members(k)

\* the scores of the members of a ring in the node table ns
MemberScores(ring, ns) ==
    [k \in 1..Len(ring.member_accounts) |-> ns[ring.member_accounts[k]].suspicionScore]

\* risk_score, in tenths, is the tenth nearest to the mean of the members'
\* scores in ns, the upper one of two equally near
MeanRounded(ring, ns) ==
    LET len == Len(ring.member_accounts)
        sum == SumSeq(MemberScores(ring, ns))
    IN  /\ 2 * (ring.risk_score * len - 10 * sum) <= len
        /\ 2 * (10 * sum - ring.risk_score * len) < len

\* C18: ring assembly starts from the table the payroll filter left, and the
\* risk_score of every ring is the mean of its members' scores in that table,
\* rounded to one decimal.
C18_RiskScoreIsFilteredMean ==
    /\ [][pc' = "assembled" =>
            /\ pc = "filtered"
            /\ \A i \in 1..Len(fraudRings') : MeanRounded(fraudRings'[i], nodes)]_vars
    /\ [](Assembled => \A i \in 1..Len(fraudRings) : MeanRounded(fraudRings[i], nodes))

\* a ring whose mean is not a whole tenth and lies nearer to the upper one, and
\* a ring with a member whose score the filter lowered
C18_Witness ==
    /\ Assembled
    /\ \E i \in 1..Len(fraudRings) :
          LET len == Len(fraudRings[i].member_accounts)
              sum == SumSeq(MemberScores(fraudRings[i], nodes))
          IN  fraudRings[i].risk_score * len > 10 * sum
    /\ \E i \in 1..Len(fraudRings) : \E id \in Members(i) :
          /\ Includes(fanOutAccounts, id)
          /\ ~Includes(nodes[id].detectedPatterns, FAN_OUT)
          /\ fraudRings[i].risk_score > 0

\* the account ids that occur in the input
InputAccounts ==
    {transactions[i].sender_id : i \in 1..Len(transactions)}
        \cup {transactions[i].receiver_id : i \in 1..Len(transactions)}

\* the entries of suspicious_accounts for one account
EntriesOf(id) ==
    {i \in 1..Len(report.suspicious_accounts) : report.suspicious_accounts[i].account_id = id}

\* C19: suspicious_accounts has one entry for every node with a positive
\* score and no other entry; the summary counts its entries, the rings of
\* fraud_rings and the distinct account ids of the input.
C19_ReportCounts ==
    Emitted =>
        /\ \A id \in DOMAIN nodes :
              Cardinality(EntriesOf(id)) = IF nodes[id].suspicionScore > 0 THEN 1 ELSE 0
        /\ \A i \in 1..Len(report.suspicious_accounts) :
              report.suspicious_accounts[i].account_id \in DOMAIN nodes
        /\ report.summary.suspicious_accounts_flagged = Len(report.suspicious_accounts)
        /\ report.summary.fraud_rings_detected = Len(report.fraud_rings)
        /\ report.summary.total_accounts_analyzed = Cardinality(InputAccounts)

\* a report with accounts listed and not listed, among them a sender the
\* filter cleared, with two rings and accounts that occur in several rows
C19_Witness ==
    /\ Emitted
    /\ report.summary.suspicious_accounts_flagged > 0
    /\ report.summary.suspicious_accounts_flagged < report.summary.total_accounts_analyzed
    /\ report.summary.fraud_rings_detected >= 2
    /\ report.summary.total_accounts_analyzed < Len(transactions)
    /\ \E id \in Range(fanOutAccounts) : nodes[id].suspicionScore = 0

\* the rows a sender issues
SentBy(id) == {i \in 1..Len(transactions) : transactions[i].sender_id = id}

\* 25 transactions to 25 distinct receivers within 12 hours
IssuesTwentyFive(id) ==
    /\ Cardinality(SentBy(id)) = 25
    /\ Cardinality({transactions[i].receiver_id : i \in SentBy(id)}) = 25
    /\ \A i, j \in SentBy(id) :
          transactions[i].timestampMs - transactions[j].timestampMs <= 12 * HOUR

\* C20: a sender of 25 transactions to 25 distinct receivers within 12 hours
\* that is in no cycle, no fan-in receiver and on no shell chain is reported
\* with the tags fan_out and high_velocity and score 35 and is a member of the
\* fan_out ring, whatever the amounts.
C20_HighVelocityScenario ==
    Emitted =>
        \A id \in DOMAIN nodes :
            /\ IssuesTwentyFive(id)
            /\ id \notin InSomeCycle
            /\ ~Includes(fanInAccounts, id)
            /\ ~Includes(shellAccounts, id)
            => /\ nodes[id].detectedPatterns
                     = <<FAN_OUT, <<"h", "i", "g", "h", "_", "v", "e", "l", "o", "c", "i", "t", "y">>>>
               /\ nodes[id].suspicionScore = 35
               /\ id \in MembersOfType("fan_out")
               /\ \E i \in EntriesOf(id) :
                     /\ report.suspicious_accounts[i].suspicion_score = 350
                     /\ report.suspicious_accounts[i].detected_patterns
                           = nodes[id].detectedPatterns

\* an account listed by two rings of fraud_rings
InTwoRings == \E id \in DOMAIN nodes : Cardinality(RingsOf(id)) > 1

\* the return statement of analyzeTransactions
Returns == pc = "assembled" /\ pc' = "done"

\* C23: when ring assembly has put one account in two rings,
\* analyzeTransactions does not return a report.
C23_FailFastOnBreach == [][InTwoRings => ~Returns]_vars

\* the cycle tags a node carries, in the order of detectedPatterns
CycleTagsOf(id) ==
    SelectSeq(nodes[id].detectedPatterns, LAMBDA tag : StartsWith(tag, CYCLE_PREFIX))

\* the lengths of the simple directed cycles of length 3 to 5 through id
CycleLengthsThrough(id) == {Len(p) : p \in {c \in SimpleCycles : id \in Range(c)}}

Least(lengths) == CHOOSE k \in lengths : \A other \in lengths : k <= other

\* C24: an account of an emitted cycle carries exactly one cycle tag, the one
\* of the shortest simple directed cycle of length 3 to 5 through it, and the
\* 40 cycle points once; an account in no such cycle carries no cycle tag.
C24_ShortestCycleTag ==
    Emitted =>
        \A id \in DOMAIN nodes :
            /\ id \in InSomeCycle =>
                  /\ CycleTagsOf(id) = <<CycleTag(Least(CycleLengthsThrough(id)))>>
                  /\ nodes[id].suspicionScore
                        = Min(100, SCORES.cycle + TagSum(Tail(nodes[id].detectedPatterns)))
            /\ CycleLengthsThrough(id) = {} => CycleTagsOf(id) = << >>

\* the tags in the order in which the contract lists them
CanonicalTags ==
    <<<<"c", "y", "c", "l", "e", "_", "l", "e", "n", "g", "t", "h", "_", "3">>,
      <<"c", "y", "c", "l", "e", "_", "l", "e", "n", "g", "t", "h", "_", "4">>,
      <<"c", "y", "c", "l", "e", "_", "l", "e", "n", "g", "t", "h", "_", "5">>,
      <<"f", "a", "n", "_", "i", "n">>,
      <<"f", "a", "n", "_", "o", "u", "t">>,
      <<"s", "h", "e", "l", "l", "_", "c", "h", "a", "i", "n">>,
      <<"h", "i", "g", "h", "_", "v", "e", "l", "o", "c", "i", "t", "y">>>>

\* tags is CanonicalTags with some entries left out
InCanonicalOrder(tags) ==
    \E pos \in [1..Len(tags) -> 1..Len(CanonicalTags)] :
        /\ \A n \in 1..Len(tags) : CanonicalTags[pos[n]] = tags[n]
        /\ \A n \in 1..Len(tags) - 1 : pos[n] < pos[n + 1]

\* tags without every fan_out entry, the others in their order
WithoutFanOut(tags) == SelectSeq(tags, LAMBDA tag : tag # <<"f", "a", "n", "_", "o", "u", "t">>)

\* C25: in the emitted report every node's tag list, and every entry of
\* suspicious_accounts, is free of duplicates and in canonical order; the
\* filterFalsePositives step leaves each tag list as it was or as it was
\* without fan_out.
C25_TagsInCanonicalOrder ==
    /\ [][FilterStep =>
             \A id \in DOMAIN nodes :
                 nodes'[id].detectedPatterns
                     \in {nodes[id].detectedPatterns, WithoutFanOut(nodes[id].detectedPatterns)}]_vars
    /\ [](Emitted =>
             /\ \A id \in DOMAIN nodes :
                   /\ NoDuplicates(nodes[id].detectedPatterns)
                   /\ InCanonicalOrder(nodes[id].detectedPatterns)
             /\ \A n \in 1..Len(report.suspicious_accounts) :
                   InCanonicalOrder(report.suspicious_accounts[n].detected_patterns))

\* a fan-out sender that lost fan_out from between fan_in and shell_chain
C25_Witness ==
    /\ Emitted
    /\ \E id \in DOMAIN nodes :
          /\ Includes(fanOutAccounts, id)
          /\ nodes[id].detectedPatterns = <<FAN_IN, SHELL_CHAIN, HIGH_VELOCITY>>

AfterGraph == pc # "input"

\* the rows in which id is the sender, and those in which it is the receiver
RowsFrom(id) == {n \in 1..Len(transactions) : transactions[n].sender_id = id}
RowsTo(id) == {n \in 1..Len(transactions) : transactions[n].receiver_id = id}

\* sender and receiver of every row, in file order
Parties ==
    [n \in 1..2 * Len(transactions) |->
        IF n % 2 = 1 THEN transactions[(n + 1) \div 2].sender_id
                     ELSE transactions[n \div 2].receiver_id]

FirstAt(id) == CHOOSE n \in 1..Len(Parties) : Parties[n] = id /\ \A k \in 1..n - 1 : Parties[k] # id

TotalOver(ids) == SumSeq([n \in 1..Len(ids) |-> nodes[ids[n]].totalTransactions])

\* C26: after buildGraph the edge list holds one edge per row in file order,
\* each node counts the rows it sends plus the rows it receives, the counts
\* add up to twice the number of rows, adjacency and reverseAdj hold exactly
\* the pairs of the rows, and the node table lists the accounts in the order
\* of their first appearance, the sender of a row before its receiver.
C26_GraphAccounting ==
    AfterGraph =>
        /\ Len(edges) = Len(transactions)
        /\ \A n \in 1..Len(edges) :
              edges[n] = [source |-> transactions[n].sender_id,
                          target |-> transactions[n].receiver_id,
                          amount |-> transactions[n].amount,
                          timestamp |-> transactions[n].timestampMs,
                          transactionId |-> transactions[n].transaction_id]
        /\ DOMAIN nodes = Range(Parties)
        /\ \A id \in DOMAIN nodes :
              nodes[id].totalTransactions = Cardinality(RowsFrom(id)) + Cardinality(RowsTo(id))
        /\ TotalOver(nodeIds) = 2 * Len(transactions)
        /\ \A a, b \in DOMAIN nodes :
              /\ Sends(a, b) <=> RowsFrom(a) \cap RowsTo(b) # {}
              /\ Sends(a, b) <=> SendsIn(reverseAdj, b, a)
        /\ \A id \in DOMAIN adjacency : NoDuplicates(adjacency[id])
        /\ \A id \in DOMAIN reverseAdj : NoDuplicates(reverseAdj[id])
        /\ Len(nodeIds) = Cardinality(Range(Parties))
        /\ \A n \in 1..Len(nodeIds) :
              /\ nodeIds[n] \in Range(Parties)
              /\ \A k \in 1..n - 1 : FirstAt(nodeIds[k]) < FirstAt(nodeIds[n])

\* a file with a self-loop, the same row twice, one transaction id on two
\* different rows and timestamps against the file order
C26_Witness ==
    /\ AfterGraph
    /\ \E n \in 1..Len(transactions) : transactions[n].sender_id = transactions[n].receiver_id
    /\ \E n, k \in 1..Len(transactions) : n < k /\ transactions[n] = transactions[k]
    /\ \E n, k \in 1..Len(transactions) :
          /\ transactions[n].transaction_id = transactions[k].transaction_id
          /\ transactions[n] # transactions[k]
    /\ \E n, k \in 1..Len(transactions) :
          n < k /\ transactions[n].timestampMs > transactions[k].timestampMs

AfterShell == pc \notin {"input", "graph", "cycles", "smurfing"}

\* the accounts on a simple directed path of three hops whose two inner
\* accounts are intermediates
OnShellPath == UNION {Range(p) : p \in ShellPaths(3)}

\* C28: every account of shellAccounts lies on a simple directed path of
\* three hops whose inner accounts have 2 or 3 transactions; the queue of a
\* seed's traversal starts with the seed at depth 0, never holds an account
\* twice and never holds an item deeper than 6.
C28_ShellChainsSound ==
    AfterShell =>
        /\ Range(shellAccounts) \subseteq OnShellPath
        /\ Len(shellTrace) = Len(nodeIds)
        /\ \A n \in 1..Len(shellTrace) :
              /\ shellTrace[n][1] = [id |-> nodeIds[n], depth |-> 0]
              /\ \A k, m \in 1..Len(shellTrace[n]) :
                    shellTrace[n][k].id = shellTrace[n][m].id => k = m
              /\ \A k \in 1..Len(shellTrace[n]) : shellTrace[n][k].depth \in 0..6

\* a traversal that stops at depth 6 before an intermediate it has not seen,
\* in a graph with a self-loop and a directed cycle, some accounts flagged
C28_Witness ==
    /\ AfterShell
    /\ shellAccounts # << >>
    /\ \E id \in DOMAIN nodes : Sends(id, id)
    /\ SimpleCycles # {}
    /\ \E n \in 1..Len(shellTrace) : \E k \in 1..Len(shellTrace[n]) :
          /\ shellTrace[n][k].depth = 6
          /\ \E next \in DOMAIN nodes :
                /\ Sends(shellTrace[n][k].id, next)
                /\ IsIntermediate(next)
                /\ \A m \in 1..Len(shellTrace[n]) : shellTrace[n][m].id # next

\* a payroll sender as the contract defines it: at least 10 outbound amounts
\* with standard deviation / mean below 0.05
PayrollSender(id) == Len(AmountsOf(id)) >= 10 /\ Spread(AmountsOf(id)) < 0

\* the node is one the filter may change
Exempted(id) ==
    /\ PayrollSender(id)
    /\ Includes(nodes[id].detectedPatterns, <<"f", "a", "n", "_", "o", "u", "t">>)
    /\ ~HasCycleTagOf(id)

\* C29: filterFalsePositives changes a node only if it is a payroll sender
\* tagged fan_out without a cycle tag; such a node loses fan_out and 25
\* points, and the flag if no tag is left; every other node is unchanged, and
\* no node's counters or ring id change.
C29_FilterFrame ==
    [][FilterStep =>
          /\ DOMAIN nodes' = DOMAIN nodes
          /\ \A id \in DOMAIN nodes :
                /\ nodes'[id] # nodes[id] => Exempted(id)
                /\ Exempted(id) =>
                      /\ nodes'[id].detectedPatterns = WithoutFanOut(nodes[id].detectedPatterns)
                      /\ Len(nodes'[id].detectedPatterns) = Len(nodes[id].detectedPatterns) - 1
                      /\ nodes'[id].suspicionScore = nodes[id].suspicionScore - 25
                      /\ nodes'[id].isSuspicious = (nodes'[id].detectedPatterns # << >>)
                      /\ nodes'[id].detectedPatterns = << >> => nodes'[id].suspicionScore = 0
                /\ nodes'[id].id = nodes[id].id
                /\ nodes'[id].totalTransactions = nodes[id].totalTransactions
                /\ nodes'[id].totalSent = nodes[id].totalSent
                /\ nodes'[id].totalReceived = nodes[id].totalReceived
                /\ nodes'[id].uniqueSenders = nodes[id].uniqueSenders
                /\ nodes'[id].uniqueReceivers = nodes[id].uniqueReceivers
                /\ nodes'[id].ringId = nodes[id].ringId]_vars

\* a step in which one of the four detectors returns
DetectorStep == pc = "graph" /\ ran' # ran

\* the graph of the batch, as buildGraph returns it
Built == buildGraph(transactions)

\* C27: a detector's step leaves the node table, the adjacency maps and the
\* edge list as they were; when all four have run, in whatever order, each
\* one's output is what it yields on the graph as built; and in every later
\* phase the edge list and the accounts of the node table are those built.
C27_DetectorsReadOnly ==
    /\ [][DetectorStep =>
             /\ nodes' = nodes /\ nodeIds' = nodeIds /\ edges' = edges
             /\ adjacency' = adjacency /\ reverseAdj' = reverseAdj]_vars
    /\ [](pc = "velocity" =>
             /\ cycles = detectCycles(Built.adjacency, Built.nodeIds).cycles
             /\ fanInAccounts = detectSmurfing(Built.edges).fanInAccounts
             /\ fanOutAccounts = detectSmurfing(Built.edges).fanOutAccounts
             /\ shellAccounts = detectShellChains(Built.nodes, Built.nodeIds, Built.adjacency)
             /\ highVelocity = detectHighVelocity(Built.edges))
    /\ [](AfterGraph =>
             /\ edges = Built.edges
             /\ nodeIds = Built.nodeIds
             /\ DOMAIN nodes = DOMAIN Built.nodes
             /\ adjacency = Built.adjacency
             /\ reverseAdj = Built.reverseAdj)

\* all four detectors have run on a file whose rows are not in the order of
\* their timestamps, and the smurfing detector, which sorts, found a receiver
C27_Witness ==
    /\ pc = "velocity"
    /\ ran = Detectors
    /\ \E n, k \in 1..Len(edges) : n < k /\ edges[n].timestamp > edges[k].timestamp
    /\ fanInAccounts # << >>

\* the runs for which parseCSV has resolved, and those handed to handleParsed
Resolves == {i \in 1..Len(tasks) : tasks[i].parsed # Null}
HandedOn == {i \in 1..Len(tasks) : tasks[i].turn > 0}

\* a string with a character that is no blank
NotBlank(cell) == \E k \in 1..Len(cell) : ~IsSpace(cell[k])

\* a line of a file with the three ids, an amount above zero and a timestamp
\* of the form YYYY-MM-DD HH:MM:SS
LineOk(row) ==
    /\ NotBlank(Cell(row, "transaction_id"))
    /\ NotBlank(Cell(row, "sender_id"))
    /\ NotBlank(Cell(row, "receiver_id"))
    /\ LET amount == ParseFloat(Cell(row, "amount"))
       IN  ~amount.nan /\ ~amount.neg /\ (amount.infinite \/ amount.digits > 0)
    /\ TIMESTAMP_REGEX(Trim(Cell(row, "timestamp")))

\* a transaction with the three ids, an amount above zero and a timestamp of
\* the form
TransactionOk(t) ==
    /\ t.transaction_id # << >> /\ t.sender_id # << >> /\ t.receiver_id # << >>
    /\ t.amount > 0
    /\ TIMESTAMP_REGEX(t.timestamp)

\* C21: parseCSV resolves with success only for a file whose header has the
\* five required columns and whose every line is in order, and then hands over
\* one transaction per line; without success it hands over no transaction;
\* handleParsed is called only with the transactions of a successful parse, so
\* the batch analyzeTransactions works on has no invalid row.
C21_AllOrNothing ==
    /\ \A i \in Resolves :
          LET parsed == tasks[i].parsed[1]
              file == tasks[i].file
          IN  /\ parsed.success =>
                    /\ ~file.unreadable
                    /\ \A n \in 1..Len(REQUIRED_COLUMNS) :
                          REQUIRED_COLUMNS[n] \in Range(file.fields)
                    /\ \A n \in 1..Len(file.data) : LineOk(file.data[n])
                    /\ Len(parsed.transactions) = Len(file.data)
              /\ ~parsed.success => parsed.transactions = << >> /\ parsed.errors # << >>
              /\ \A n \in 1..Len(parsed.transactions) : TransactionOk(parsed.transactions[n])
              /\ i \in HandedOn <=> parsed.success
              /\ i \in HandedOn => tasks[i].transactions = parsed.transactions
    /\ \A i \in HandedOn : i \in Resolves
    /\ ~Idle =>
          /\ \E i \in HandedOn : tasks[i].stage = "running" /\ transactions = tasks[i].transactions
          /\ \A n \in 1..Len(transactions) : TransactionOk(transactions[n])

\* a file of three good lines and a bad one was turned down, and the engine
\* works on the two rows of the file dropped after it
C21_Witness ==
    /\ Len(tasks) = 2
    /\ tasks[1].stage = "rejected"
    /\ Len(tasks[1].file.data) = 4
    /\ tasks[1].parsed[1].transactions = << >>
    /\ tasks[2].stage = "running"
    /\ pc = "graph"
    /\ Len(transactions) = 2

\* the step in which the call of analyzeTransactions throws
ThrowStep == \E i \in 1..Len(tasks) : tasks[i].stage = "running" /\ tasks'[i].stage = "threw"

\* the results dashboard is rendered
DashboardShown == appState = "results" /\ result # Null

\* the page as it is before a file is dropped: no result and no message
IdleAgain == appState' = "upload" /\ result' = Null /\ processingError' = << >>

\* C22: when analyzeTransactions throws, the page goes to the error state with
\* one message and stores nothing of the failed run; the dashboard shows only
\* the value of a call that returned; and the error state is left only for the
\* idle page: upload state, no result, no message.
C22_FailureResetsToIdle ==
    /\ [][ThrowStep =>
             /\ appState' = "error"
             /\ processingError' # << >>
             /\ result' = result]_vars
    /\ [](DashboardShown =>
             \E i \in 1..Len(tasks) : tasks[i].stage = "returned" /\ result = tasks[i].value)
    /\ [][(appState = "error" /\ appState' # "error") => IdleAgain]_vars

\* C30: in the results state the stored file name is that of a file whose
\* analysis returned the stored result, and the results state is left only by
\* reset.
C30_ResultsBelongToFile ==
    /\ [](appState = "results" =>
             \E i \in 1..Len(tasks) :
                 /\ tasks[i].stage = "returned"
                 /\ tasks[i].file.name = fileName
                 /\ result = tasks[i].value)
    /\ [][(appState = "results" /\ appState' # "results") =>
             (appState' = "upload" /\ result' = Null /\ tasks' = tasks)]_vars

====
